---- MODULE Spec2Model ----
(***************************************************************************)
(* Participant Reliability Index (PRI) pipeline of                         *)
(* tools/scripts/calculate_pri.py: the external judge aggregator           *)
(* (call_llm_judge, calculate_llm_judge_score, batch_process_llm_judge)    *)
(* and the score fusion (normalize_and_calculate_pri).                     *)
(*                                                                         *)
(* Numbers are exact rationals [n |-> numerator, d |-> denominator] with   *)
(* d > 0 and gcd(n, d) = 1; d = 0 encodes the IEEE specials the pandas     *)
(* code can produce: NaN (n = 0), +inf (n = 1), -inf (n = -1).             *)
(***************************************************************************)
EXTENDS Integers, Sequences, FiniteSets, TLC

(* ------------------------------ bounds -------------------------------- *)

\* longest judge reply explored, in tokens
MaxContentLen == 5

\* most participants handed to batch_process_llm_judge
MaxParticipants == 3

\* most configured judge models (LLMJudgeConfig.models)
MaxModels == 2

\* most judge requests of one run (participants x models)
MaxRequests == 4

\* largest semaphore bound and largest batch size explored
MaxCap == 2

MaxBatch == 3

\* most participants in the table handed to normalize_and_calculate_pri
MaxPop == 2

\* most rows of the binary votes file when the timestamps vary
MaxTimes == 2

\* most rows of the binary votes file when the votes vary
MaxVotes == 3

\* how many times main is run over the same files
MaxRuns == 2

\* most participants in the table handed to identify_unreliable_participants
MaxScores == 4

\* most judges whose results are gathered for one participant
MaxJudges == 4

\* most rows of the aggregate file when the agreement rates vary
MaxAggregateRows == 3

\* most votes when their spelling varies
MaxSpelledVotes == 2

\* most values in a series normalized on its own
MaxSeries == 3

\* most participants in the runs explored for termination
MaxLiveParticipants == 2

(* ----------------------------- rationals ------------------------------ *)

Abs(x) == IF x < 0 THEN -x ELSE x

Sign(x) == IF x < 0 THEN -1 ELSE IF x > 0 THEN 1 ELSE 0

RECURSIVE GCD(_, _)
GCD(a, b) == IF b = 0 THEN a ELSE GCD(b, a % b)

\* the float n/d (n/0 is NaN or a signed infinity)
Rat(n, d) ==
    IF d = 0 THEN [n |-> Sign(n), d |-> 0]
    ELSE LET g == GCD(Abs(n), Abs(d))
             s == Sign(d)
         IN  [n |-> (s * n) \div g, d |-> (s * d) \div g]

NaN == [n |-> 0, d |-> 0]

\* Python's None in a confidence_score cell (pandas stores it as missing)
None == NaN

Zero == Rat(0, 1)
One == Rat(1, 1)
Half == Rat(1, 2)

IsNaN(x) == x.d = 0 /\ x.n = 0

IsInf(x) == x.d = 0 /\ x.n # 0

IsFinite(x) == x.d # 0

RNeg(a) == [n |-> -a.n, d |-> a.d]

RAdd(a, b) ==
    IF IsNaN(a) \/ IsNaN(b) THEN NaN
    ELSE IF IsInf(a) /\ IsInf(b) THEN (IF a.n = b.n THEN a ELSE NaN)
    ELSE IF IsInf(a) THEN a
    ELSE IF IsInf(b) THEN b
    ELSE Rat(a.n * b.d + b.n * a.d, a.d * b.d)

RSub(a, b) == RAdd(a, RNeg(b))

RMul(a, b) ==
    IF IsNaN(a) \/ IsNaN(b) THEN NaN
    ELSE IF IsInf(a) \/ IsInf(b) THEN Rat(Sign(a.n) * Sign(b.n), 0)
    ELSE Rat(a.n * b.n, a.d * b.d)

RDiv(a, b) ==
    IF IsNaN(a) \/ IsNaN(b) THEN NaN
    ELSE IF IsInf(b) THEN (IF IsInf(a) THEN NaN ELSE Zero)
    ELSE IF IsInf(a) THEN Rat(Sign(a.n) * (IF b.n < 0 THEN -1 ELSE 1), 0)
    ELSE Rat(a.n * b.d, a.d * b.n)

\* comparisons are False as soon as one side is NaN
RLt(a, b) ==
    IF IsNaN(a) \/ IsNaN(b) THEN FALSE
    ELSE IF IsInf(a) \/ IsInf(b)
         THEN (IF IsInf(a) THEN a.n ELSE 0) < (IF IsInf(b) THEN b.n ELSE 0)
              \/ (IsInf(a) /\ ~IsInf(b) /\ a.n < 0)
              \/ (IsInf(b) /\ ~IsInf(a) /\ b.n > 0)
    ELSE a.n * b.d < b.n * a.d

RLe(a, b) == ~IsNaN(a) /\ ~IsNaN(b) /\ (a = b \/ RLt(a, b))

RECURSIVE RSum(_)
RSum(s) == IF s = << >> THEN Zero ELSE RAdd(Head(s), RSum(Tail(s)))

(* ------------------- judge replies (call_llm_judge) ------------------- *)

\* A reply body is a sequence of text fragments:
\*   LB  {          RB  }          LSQ  [          RSQ  ]
\*   KV_LO  "confidence_score": 0.2      KV_OK  "confidence_score": 0.8
\*   KV_HI  "confidence_score": 1.5      RSN  , "reasoning": "<10 or more characters>"
\*   TXT    prose holding no brace, bracket or key
Tokens == {"LB", "RB", "LSQ", "RSQ", "KV_LO", "KV_OK", "KV_HI", "RSN", "TXT"}

KVTokens == {"KV_LO", "KV_OK", "KV_HI"}

TokenScore(t) ==
    CASE t = "KV_LO" -> Rat(1, 5)
      [] t = "KV_OK" -> Rat(4, 5)
      [] t = "KV_HI" -> Rat(3, 2)
      [] OTHER -> NaN

\* json.loads accepts an object {}, {kv} or {kv, reasoning}
IsJsonObject(s) ==
    /\ Len(s) \in 2..4
    /\ s[1] = "LB"
    /\ s[Len(s)] = "RB"
    /\ \/ Len(s) = 2
       \/ Len(s) = 3 /\ s[2] \in KVTokens
       \/ Len(s) = 4 /\ s[2] \in KVTokens /\ s[3] = "RSN"

\* ... or an array of at most one JSON value
RECURSIVE IsJsonValue(_)
IsJsonValue(s) ==
    \/ IsJsonObject(s)
    \/ /\ Len(s) >= 2
       /\ s[1] = "LSQ"
       /\ s[Len(s)] = "RSQ"
       /\ (Len(s) = 2 \/ IsJsonValue(SubSeq(s, 2, Len(s) - 1)))

\* json.loads(content): the type of the value, or the error raised
json_loads(s) ==
    IF IsJsonObject(s) THEN "dict"
    ELSE IF IsJsonValue(s) THEN "list"
    ELSE "JSONDecodeError"

\* LLMJudgeResponse(**parsed) for a parsed object: both fields are required,
\* 0 <= confidence_score <= 1, len(reasoning) >= 10
LLMJudgeResponse(s) ==
    IF /\ Len(s) = 4
       /\ RLe(Zero, TokenScore(s[2]))
       /\ RLe(TokenScore(s[2]), One)
    THEN [ok |-> TRUE, confidence_score |-> TokenScore(s[2]), reasoning |-> "reasoning"]
    ELSE [ok |-> FALSE, confidence_score |-> None, reasoning |-> "ValidationError"]

\* position of the first } after position i (0: none)
FirstRB(s, i) ==
    IF \E k \in (i + 1)..Len(s) : s[k] = "RB"
    THEN CHOOSE k \in (i + 1)..Len(s) :
            s[k] = "RB" /\ \A m \in (i + 1)..(k - 1) : s[m] # "RB"
    ELSE 0

\* re.search(r'\{[^}]*"confidence_score"[^}]*\}', content) matches at i
MatchesAt(s, i) ==
    /\ s[i] = "LB"
    /\ FirstRB(s, i) # 0
    /\ \E j \in (i + 1)..(FirstRB(s, i) - 1) : s[j] \in KVTokens

\* json_match.group(): the leftmost match, << >> when there is none
json_match(s) ==
    IF \E i \in 1..Len(s) : MatchesAt(s, i)
    THEN LET i == CHOOSE i \in 1..Len(s) :
                      MatchesAt(s, i) /\ \A m \in 1..(i - 1) : ~MatchesAt(s, m)
         IN  SubSeq(s, i, FirstRB(s, i))
    ELSE << >>

\* re.search(r'["\s]*confidence_score["\s]*:?\s*([0-9.]+)', content):
\* the number after the first key, NaN when there is no match
score_match(s) ==
    IF \E i \in 1..Len(s) : s[i] \in KVTokens
    THEN LET i == CHOOSE i \in 1..Len(s) :
                      s[i] \in KVTokens /\ \A m \in 1..(i - 1) : s[m] \notin KVTokens
         IN  TokenScore(s[i])
    ELSE NaN

Result(model, score, reasoning) ==
    [model |-> model, confidence_score |-> score, reasoning |-> reasoning]

\* the except-branch of the direct parse: embedded object, then bare number
FallbackParse(model, content) ==
    LET m == json_match(content)
        sc == score_match(content)
    IN  IF m # << >>
        THEN \* json.loads(json_str) or LLMJudgeResponse raising lands in
             \* "except Exception as fallback_error", past the third strategy
             IF json_loads(m) = "dict" /\ LLMJudgeResponse(m).ok
             THEN Result(model, LLMJudgeResponse(m).confidence_score,
                         LLMJudgeResponse(m).reasoning)
             ELSE Result(model, None, "Parse error")
        ELSE IF ~IsNaN(sc) /\ RLe(Zero, sc) /\ RLe(sc, One)
             THEN Result(model, sc, "Extracted from partial response")
             ELSE Result(model, None, "Parse error")

\* the status-200 branch
ParseContent(model, content) ==
    CASE json_loads(content) = "dict" /\ LLMJudgeResponse(content).ok ->
            Result(model, LLMJudgeResponse(content).confidence_score,
                   LLMJudgeResponse(content).reasoning)
      [] json_loads(content) = "list" ->
            \* LLMJudgeResponse(**parsed) raises TypeError, which only the
            \* outer "except Exception" catches
            Result(model, None, "Request error")
      [] OTHER -> FallbackParse(model, content)

\* a reply of the scoring service: what session.post yields
Reply(kind, status, content) == [kind |-> kind, status |-> status, content |-> content]

call_llm_judge(model, reply) ==
    CASE reply.kind = "timeout" -> Result(model, None, "Request timeout")
      [] reply.kind = "error" -> Result(model, None, "Request error")
      [] reply.kind = "response" /\ reply.status # 200 -> Result(model, None, "HTTP error")
      [] OTHER -> ParseContent(model, reply.content)

(* --------------------------- state ------------------------------------ *)

VARIABLES
    \* batch_process_llm_judge
    models,            \* LLMJudgeConfig().models
    participant_ids,   \* the participant_ids argument
    BATCH_SIZE,        \* local of line 2150
    MAX_CONCURRENT_REQUESTS,  \* local of line 2151
    semaphore,         \* free permits of asyncio.Semaphore
    pc,                \* position of batch_process_llm_judge
    batch_idx,         \* the for-loop variable
    task,              \* state of process_participant_with_semaphore(p)
    responses,         \* what get_participant_evaluatable_responses gave for p
    calls,             \* the call_llm_judge tasks of p, one per model
    ret,               \* value returned by p's task
    results,           \* the results dict
    \* one call_llm_judge call on its own
    reply,             \* the service's reply
    judged,            \* the tuple call_llm_judge returned
    call_pc,
    gathered,                \* the results list of the gather over the judges
    averaged,                \* what the processing of that list returns
    \* calculate_all_pri_signals (its tail) and normalize_and_calculate_pri
    enable_llm_judge,  \* the flag, after line 1275
    signal_rows,       \* the results list: one dict per participant
    llm_results,       \* what batch_process_llm_judge returned
    pri_signals_df,    \* the DataFrame object calculate_all_pri_signals returns and
                       \* normalize_and_calculate_pri is given, a sequence of rows
    columns,           \* its columns
    heuristic_weights, \* the weights of the heuristic weighted sum
    enhanced_weights,  \* the weights of the enhanced weighted sum
    unreliable_participants, \* what identify_unreliable_participants returned
    normalize_call,    \* one call of min_max_normalize: its arguments and locals
    fusion_pc,
    \* main: load_data, then calculate_all_pri_signals
    source_files,      \* the CSV files of the data directory
    data_tuple,        \* what load_data returned
    run_config,        \* the config dict of the run (get_config)
    consensus_data,    \* what precompute_consensus_data returned
    consensus_calls,   \* calls of precompute_consensus_data in this run of main
    pri_results,       \* the results list of calculate_all_pri_signals
    participant_idx,   \* position of the loop over all_participant_ids
    run,               \* which run of main over the same files this is
    signals_pc

judgeVars == << models, participant_ids, BATCH_SIZE, MAX_CONCURRENT_REQUESTS,
                semaphore, pc, batch_idx, task, responses, calls, ret, results >>

callVars == << reply, judged, call_pc, gathered, averaged >>

fusionVars == << enable_llm_judge, signal_rows, llm_results, pri_signals_df,
                 columns, heuristic_weights, enhanced_weights, unreliable_participants,
                 normalize_call, fusion_pc >>

signalVars == << source_files, data_tuple, run_config, consensus_data, consensus_calls,
                 pri_results,
                 participant_idx, run, signals_pc >>

vars == << judgeVars, callVars, fusionVars, signalVars >>

(* ------------- calculate_llm_judge_score: result processing ----------- *)

NoResult == Result(0, None, "")

NoReply == Reply("none", 0, << >>)

\* mutant: a request that yields no score is issued again
Call_reissued(state, r, result) ==
    [state |-> IF state = "returned" /\ IsNaN(result.confidence_score)
               THEN "inflight" ELSE state,
     reply |-> r, result |-> result]

\* one entry of the tasks list: not yet created ("idle"), awaiting its reply
\* ("inflight"), returned a tuple, or raised out of call_llm_judge; reply is
\* what the service answered
Call(state, r, result) == [state |-> state, reply |-> r, result |-> result]

Resolved(c) == c.state \in {"returned", "raised"}

\* the tuple (score, individual_scores) a participant's task returns
Score(score, individual_scores) ==
    [score |-> score, individual_scores |-> individual_scores]

EmptyDict == [m \in {} |-> NoResult]

\* mutant: a judge without a score counts as a score of 0
RECURSIVE valid_scores_none_as_zero(_)
valid_scores_none_as_zero(rs) ==
    IF rs = << >> THEN << >>
    ELSE LET r == Head(rs)
         IN  IF r.state = "returned"
             THEN << (IF IsNaN(r.result.confidence_score) THEN Zero
                      ELSE r.result.confidence_score) >>
                  \o valid_scores_none_as_zero(Tail(rs))
             ELSE valid_scores_none_as_zero(Tail(rs))

\* mutant: the scores up to the first judge without one
RECURSIVE valid_scores_until_failure(_)
valid_scores_until_failure(rs) ==
    IF rs = << >> THEN << >>
    ELSE LET r == Head(rs)
         IN  IF r.state = "returned" /\ ~IsNaN(r.result.confidence_score)
             THEN << r.result.confidence_score >> \o valid_scores_until_failure(Tail(rs))
             ELSE << >>

\* valid_scores: the non-None confidence scores, in the order of results
RECURSIVE valid_scores(_)
valid_scores(rs) ==
    IF rs = << >> THEN << >>
    ELSE LET r == Head(rs)
         IN  IF r.state = "returned" /\ ~IsNaN(r.result.confidence_score)
             THEN << r.result.confidence_score >> \o valid_scores(Tail(rs))
             ELSE valid_scores(Tail(rs))

\* mutant: only the judges that gave a score are recorded
individual_scores_scored_only(rs) ==
    LET idx == {i \in 1..Len(rs) :
                  rs[i].state = "returned" /\ ~IsNaN(rs[i].result.confidence_score)}
        names == {rs[i].result.model : i \in idx}
    IN  [n \in names |->
            LET i == CHOOSE i \in idx : rs[i].result.model = n
            IN  [confidence_score |-> rs[i].result.confidence_score,
                 reasoning |-> rs[i].result.reasoning]]

\* individual_scores: one entry per result that is no exception
individual_scores_of(rs) ==
    LET idx == {i \in 1..Len(rs) : rs[i].state = "returned"}
        names == {rs[i].result.model : i \in idx}
    IN  [n \in names |->
            LET i == CHOOSE i \in idx :
                        /\ rs[i].result.model = n
                        /\ \A k \in idx : rs[k].result.model = n => k <= i
            IN  [confidence_score |-> rs[i].result.confidence_score,
                 reasoning |-> rs[i].result.reasoning]]

\* avg_score = sum(valid_scores) / len(valid_scores)
avg_score(vs) == RDiv(RSum(vs), Rat(Len(vs), 1))

\* lines 1201-1231
process_results(rs) ==
    IF valid_scores(rs) # << >>
    THEN Score(avg_score(valid_scores(rs)), individual_scores_of(rs))
    ELSE Score(Half, individual_scores_of(rs))

(* ------------------------ batch_process_llm_judge --------------------- *)

NumParticipants == Len(participant_ids)

Participants == 1..NumParticipants

ModelIdx == 1..Len(models)

\* total_batches = (len(participant_ids) + BATCH_SIZE - 1) // BATCH_SIZE
total_batches == (NumParticipants + BATCH_SIZE - 1) \div BATCH_SIZE

Min(a, b) == IF a < b THEN a ELSE b

\* positions of participant_ids[start_idx:end_idx] for batch k (0-based k)
batch_participants(k) == (k * BATCH_SIZE + 1)..Min(k * BATCH_SIZE + BATCH_SIZE, NumParticipants)

BatchOf(p) == (p - 1) \div BATCH_SIZE

\* requests issued and not yet resolved
InFlight == {<<p, m>> \in Participants \X ModelIdx : calls[p][m].state = "inflight"}

\* the replies the scoring service gives in a batch run
JudgeReplies ==
    { Reply("timeout", 0, << >>),
      Reply("error", 0, << >>),
      Reply("response", 500, << >>),
      Reply("response", 200, << "TXT" >>),
      Reply("response", 200, << "LB", "KV_LO", "RSN", "RB" >>),
      Reply("response", 200, << "LB", "KV_OK", "RSN", "RB" >>) }

\* mutant: the semaphore never blocks
CanAcquireAlways(sem) == TRUE

\* "async with semaphore" may proceed
CanAcquire(sem) == sem > 0

\* mutant: the gather returns with the first finished task
GatheredFirstCompleted(k) == \E p \in batch_participants(k) : task[p] = "done"

\* asyncio.gather(*tasks) of the batch has every result
Gathered(k) == \A p \in batch_participants(k) : task[p] = "done"

\* the runs explored: every size within the bounds, and the run of five
\* participants with one model each, in batches of 3, under a cap of 2
JudgeInit ==
    /\ \/ /\ \E np \in 1..MaxParticipants, nm \in 1..MaxModels :
                /\ np * nm <= MaxRequests
                /\ participant_ids = [i \in 1..np |-> i]
                /\ models = [i \in 1..nm |-> i]
          /\ BATCH_SIZE \in 1..MaxBatch
          /\ MAX_CONCURRENT_REQUESTS \in 1..MaxCap
       \/ /\ participant_ids = [i \in 1..5 |-> i]
          /\ models = [i \in 1..1 |-> i]
          /\ BATCH_SIZE = 3
          /\ MAX_CONCURRENT_REQUESTS = 2
    /\ semaphore = MAX_CONCURRENT_REQUESTS
    /\ pc = "loop"
    /\ batch_idx = 0
    /\ task = [p \in Participants |-> "none"]
    /\ responses = [p \in Participants |-> "unread"]
    /\ calls = [p \in Participants |-> [m \in ModelIdx |-> Call("idle", NoReply, NoResult)]]
    /\ ret = [p \in Participants |-> Score(NaN, EmptyDict)]
    /\ results = [p \in {} |-> Score(NaN, EmptyDict)]

\* the runs explored for termination: one judge model and a single permit,
\* so that every participant of a batch but one waits for the semaphore
JudgeLiveInit ==
    /\ \E np \in 1..MaxLiveParticipants : participant_ids = [i \in 1..np |-> i]
    /\ models = [i \in 1..1 |-> i]
    /\ BATCH_SIZE \in 1..MaxLiveParticipants
    /\ MAX_CONCURRENT_REQUESTS = 1
    /\ semaphore = MAX_CONCURRENT_REQUESTS
    /\ pc = "loop"
    /\ batch_idx = 0
    /\ task = [p \in Participants |-> "none"]
    /\ responses = [p \in Participants |-> "unread"]
    /\ calls = [p \in Participants |-> [m \in ModelIdx |-> Call("idle", NoReply, NoResult)]]
    /\ ret = [p \in Participants |-> Score(NaN, EmptyDict)]
    /\ results = [p \in {} |-> Score(NaN, EmptyDict)]

\* lines 2170-2184: the tasks of batch batch_idx are created and gathered
StartBatch ==
    /\ pc = "loop"
    /\ batch_idx < total_batches
    /\ task' = [p \in Participants |->
                  IF p \in batch_participants(batch_idx) THEN "waiting" ELSE task[p]]
    /\ pc' = "gather"
    /\ UNCHANGED << models, participant_ids, BATCH_SIZE, MAX_CONCURRENT_REQUESTS,
                    semaphore, batch_idx, responses, calls, ret, results, callVars, fusionVars, signalVars >>

\* lines 2157, 1177-1182: the task gets a permit, finds no evaluatable
\* response, returns the neutral score and gives the permit back
AcquireNoResponses(p) ==
    /\ pc = "gather"
    /\ task[p] = "waiting"
    /\ CanAcquire(semaphore)
    /\ responses' = [responses EXCEPT ![p] = "none"]
    /\ ret' = [ret EXCEPT ![p] = Score(Half, EmptyDict)]
    /\ task' = [task EXCEPT ![p] = "done"]
    /\ UNCHANGED << models, participant_ids, BATCH_SIZE, MAX_CONCURRENT_REQUESTS,
                    semaphore, pc, batch_idx, calls, results, callVars, fusionVars, signalVars >>

\* lines 2157-2165: calculate_llm_judge_score raises before any request
\* (ParticipantResponses rejects a response), the task returns (0.5, {})
AcquireRaises(p) ==
    /\ pc = "gather"
    /\ task[p] = "waiting"
    /\ CanAcquire(semaphore)
    /\ responses' = [responses EXCEPT ![p] = "invalid"]
    /\ ret' = [ret EXCEPT ![p] = Score(Half, EmptyDict)]
    /\ task' = [task EXCEPT ![p] = "done"]
    /\ UNCHANGED << models, participant_ids, BATCH_SIZE, MAX_CONCURRENT_REQUESTS,
                    semaphore, pc, batch_idx, calls, results, callVars, fusionVars, signalVars >>

\* lines 2157, 1177-1199: the task gets a permit and issues one request per model
AcquireAndIssue(p) ==
    /\ pc = "gather"
    /\ task[p] = "waiting"
    /\ CanAcquire(semaphore)
    /\ semaphore' = semaphore - 1
    /\ responses' = [responses EXCEPT ![p] = "some"]
    /\ calls' = [calls EXCEPT ![p] = [m \in ModelIdx |-> Call("inflight", NoReply, NoResult)]]
    /\ task' = [task EXCEPT ![p] = "running"]
    /\ UNCHANGED << models, participant_ids, BATCH_SIZE, MAX_CONCURRENT_REQUESTS,
                    pc, batch_idx, ret, results, callVars, fusionVars, signalVars >>

\* lines 1006-1064: one request resolves into its tuple
Resolve(p, m) ==
    /\ calls[p][m].state = "inflight"
    /\ \E r \in JudgeReplies :
          calls' = [calls EXCEPT ![p][m] = Call("returned", r, call_llm_judge(models[m], r))]
    /\ UNCHANGED << models, participant_ids, BATCH_SIZE, MAX_CONCURRENT_REQUESTS,
                    semaphore, pc, batch_idx, task, responses, ret, results, callVars, fusionVars, signalVars >>

\* mutant: the task returns without giving its permit back
Finish_keeps_permit(p) ==
    /\ task[p] = "running"
    /\ \A m \in ModelIdx : Resolved(calls[p][m])
    /\ ret' = [ret EXCEPT ![p] = process_results([m \in ModelIdx |-> calls[p][m]])]
    /\ task' = [task EXCEPT ![p] = "done"]
    /\ UNCHANGED << models, participant_ids, BATCH_SIZE, MAX_CONCURRENT_REQUESTS, semaphore,
                    pc, batch_idx, responses, calls, results, callVars, fusionVars, signalVars >>

\* lines 1199-1231, 2157: the inner gather has every result, the task
\* averages them, returns and releases its permit
Finish(p) ==
    /\ task[p] = "running"
    /\ \A m \in ModelIdx : Resolved(calls[p][m])
    /\ ret' = [ret EXCEPT ![p] = process_results([m \in ModelIdx |-> calls[p][m]])]
    /\ semaphore' = semaphore + 1
    /\ task' = [task EXCEPT ![p] = "done"]
    /\ UNCHANGED << models, participant_ids, BATCH_SIZE, MAX_CONCURRENT_REQUESTS,
                    pc, batch_idx, responses, calls, results, callVars, fusionVars, signalVars >>

\* mutant: the results are paired with the participants in the reverse order
StoreBatch_reversed ==
    /\ pc = "gather"
    /\ Gathered(batch_idx)
    /\ results' = [p \in DOMAIN results \cup batch_participants(batch_idx) |->
                     IF p \in batch_participants(batch_idx)
                     THEN ret[batch_idx * BATCH_SIZE + 1
                              + Min(batch_idx * BATCH_SIZE + BATCH_SIZE, NumParticipants) - p]
                     ELSE results[p]]
    /\ batch_idx' = batch_idx + 1
    /\ pc' = "loop"
    /\ UNCHANGED << models, participant_ids, BATCH_SIZE, MAX_CONCURRENT_REQUESTS,
                    semaphore, task, responses, calls, ret, callVars, fusionVars, signalVars >>

\* lines 2184-2198: the batch's gather returns and its results are stored
StoreBatch ==
    /\ pc = "gather"
    /\ Gathered(batch_idx)
    /\ results' = [p \in DOMAIN results \cup batch_participants(batch_idx) |->
                     IF p \in batch_participants(batch_idx) THEN ret[p] ELSE results[p]]
    /\ batch_idx' = batch_idx + 1
    /\ pc' = "loop"
    /\ UNCHANGED << models, participant_ids, BATCH_SIZE, MAX_CONCURRENT_REQUESTS,
                    semaphore, task, responses, calls, ret, callVars, fusionVars, signalVars >>

\* lines 2200-2201
Return ==
    /\ pc = "loop"
    /\ batch_idx = total_batches
    /\ pc' = "returned"
    /\ UNCHANGED << models, participant_ids, BATCH_SIZE, MAX_CONCURRENT_REQUESTS,
                    semaphore, batch_idx, task, responses, calls, ret, results, callVars, fusionVars, signalVars >>

JudgeNext ==
    \/ StartBatch
    \/ \E p \in Participants : AcquireNoResponses(p)
    \/ \E p \in Participants : AcquireRaises(p)
    \/ \E p \in Participants : AcquireAndIssue(p)
    \/ \E p \in Participants, m \in ModelIdx : Resolve(p, m)
    \/ \E p \in Participants : Finish(p)
    \/ StoreBatch
    \/ Return

(* ----------------------- one call_llm_judge call ---------------------- *)

\* every reply body of at most MaxContentLen fragments
Contents == UNION {[1..n -> Tokens] : n \in 0..MaxContentLen}

\* what session.post can yield: a timeout, another exception, a non-success
\* status, or status 200 with some body
CallReplies ==
    {Reply("timeout", 0, << >>), Reply("error", 0, << >>), Reply("response", 500, << >>)}
        \cup {Reply("response", 200, c) : c \in Contents}

CallInit ==
    /\ reply \in CallReplies
    /\ judged = NoResult
    /\ call_pc = "ready"
    /\ gathered = << >>
    /\ averaged = Score(NaN, EmptyDict)

\* lines 964-1064: the whole call
CallJudge ==
    /\ call_pc = "ready"
    /\ judged' = call_llm_judge(1, reply)
    /\ call_pc' = "done"
    /\ UNCHANGED << reply, gathered, averaged, judgeVars, fusionVars, signalVars >>

CallNext == CallJudge

\* no batch is running
JudgeIdle ==
    /\ participant_ids = << >>
    /\ models = << 1 >>
    /\ BATCH_SIZE = 1
    /\ MAX_CONCURRENT_REQUESTS = 1
    /\ semaphore = 1
    /\ pc = "unused"
    /\ batch_idx = 0
    /\ task = << >>
    /\ responses = << >>
    /\ calls = << >>
    /\ ret = << >>
    /\ results = << >>

CallIdle ==
    /\ reply = NoReply
    /\ judged = NoResult
    /\ call_pc = "unused"
    /\ gathered = << >>
    /\ averaged = Score(NaN, EmptyDict)

(* ------------ calculate_llm_judge_score: the results alone ------------ *)

\* the scores a judge gives
JudgeScores == {Rat(1, 5), Rat(1, 2), Rat(4, 5)}

\* what the gather holds for judge m: its tuple, with a score or with None,
\* or the exception it raised
GatherOutcomes(m) ==
    {Call("returned", NoReply, Result(m, sc, "reasoning")) : sc \in JudgeScores \cup {None}}
        \cup {Call("raised", NoReply, NoResult)}

AverageInit ==
    /\ \E n \in 1..MaxJudges :
           gathered \in {g \in [1..n -> UNION {GatherOutcomes(m) : m \in 1..n}] :
                            \A m \in 1..n : g[m] \in GatherOutcomes(m)}
    /\ averaged = Score(NaN, EmptyDict)
    /\ call_pc = "gathered"
    /\ reply = NoReply
    /\ judged = NoResult

\* lines 1201-1231
ProcessResults ==
    /\ call_pc = "gathered"
    /\ averaged' = process_results(gathered)
    /\ call_pc' = "averaged"
    /\ UNCHANGED << reply, judged, gathered, judgeVars, fusionVars, signalVars >>

AverageNext == ProcessResults

(* ------------------ get_config: the fusion parameters ----------------- *)

DURATION_REASONABLE_MAX == 60 * 90

DURATION_WEIGHT == Rat(30, 100)
LOW_QUALITY_TAG_WEIGHT == Rat(30, 100)
UNIVERSAL_DISAGREEMENT_WEIGHT == Rat(20, 100)
ASC_WEIGHT == Rat(20, 100)

DURATION_WEIGHT_LLM == Rat(20, 100)
LOW_QUALITY_TAG_WEIGHT_LLM == Rat(20, 100)
UNIVERSAL_DISAGREEMENT_WEIGHT_LLM == Rat(15, 100)
ASC_WEIGHT_LLM == Rat(15, 100)
LLM_JUDGE_WEIGHT == Rat(30, 100)

(* -------------------------- min_max_normalize ------------------------- *)

Range(f) == {f[i] : i \in DOMAIN f}

\* series.isna().all()
AllNaN(series) == \A i \in DOMAIN series : IsNaN(series[i])

RMinOf(S) == CHOOSE x \in S : \A y \in S : RLe(x, y)

RMaxOf(S) == CHOOSE x \in S : \A y \in S : RLe(y, x)

\* the non-missing values of a series, in ascending order
RECURSIVE SortedValues(_)
SortedValues(series) ==
    LET idx == {i \in DOMAIN series : ~IsNaN(series[i])}
    IN  IF idx = {} THEN << >>
        ELSE LET i == CHOOSE i \in idx : \A k \in idx : RLe(series[i], series[k])
             IN  << series[i] >> \o SortedValues([series EXCEPT ![i] = NaN])

\* series.median(): missing values are skipped
Median(series) ==
    LET v == SortedValues(series)
        n == Len(v)
    IN  IF n = 0 THEN NaN
        ELSE IF n % 2 = 1 THEN v[(n + 1) \div 2]
        ELSE RDiv(RAdd(v[n \div 2], v[n \div 2 + 1]), Rat(2, 1))

\* mutant: the missing values are filled with zero
filled_series_zero(series) ==
    [i \in DOMAIN series |-> IF IsNaN(series[i]) THEN Zero ELSE series[i]]

\* line 1435: series.fillna(series.median())
filled_series(series) ==
    [i \in DOMAIN series |-> IF IsNaN(series[i]) THEN Median(series) ELSE series[i]]

\* lines 1441-1453 for one value of filled_series
normalized(x, min_val, max_val, invert, reasonable_max) ==
    LET scaled == IF min_val = max_val THEN Half
                  ELSE IF ~IsNaN(reasonable_max) /\ RLt(reasonable_max, max_val)
                  THEN IF RLt(reasonable_max, x) THEN One
                       ELSE RDiv(RSub(x, min_val), RSub(reasonable_max, min_val))
                  ELSE RDiv(RSub(x, min_val), RSub(max_val, min_val))
    IN  IF invert THEN RSub(One, scaled) ELSE scaled

\* mutant: the missing values keep the score of the median that filled them
min_max_normalize_no_restore(series, invert, reasonable_max) ==
    IF AllNaN(series) THEN series
    ELSE [i \in DOMAIN series |->
            normalized(filled_series(series)[i], RMinOf(Range(filled_series(series))),
                       RMaxOf(Range(filled_series(series))), invert, reasonable_max)]

\* lines 1423-1458; reasonable_max is NaN for None
min_max_normalize(series, invert, reasonable_max) ==
    IF AllNaN(series) THEN series
    ELSE [i \in DOMAIN series |->
            IF IsNaN(series[i]) THEN NaN
            ELSE normalized(series[i], RMinOf(Range(filled_series(series))),
                            RMaxOf(Range(filled_series(series))), invert, reasonable_max)]

\* no call of min_max_normalize on its own
NoCall ==
    [series |-> << >>, invert |-> FALSE, reasonable_max |-> NaN, min_val |-> NaN,
     max_val |-> NaN, normalized |-> << >>]

(* -------------------- normalize_and_calculate_pri --------------------- *)

Column(df, name) == [i \in 1..Len(df) |-> df[i][name]]

\* line 1472
asc_available(df) == ~AllNaN(Column(df, "ASC_Score_Raw"))

\* line 1473
llm_judge_available(df, cols) ==
    "LLM_Judge_Score" \in cols /\ ~AllNaN(Column(df, "LLM_Judge_Score"))

\* mutants: the ASC weight is split over the wrong number of components
asc_redistribution_half == RDiv(ASC_WEIGHT, Rat(2, 1))

asc_redistribution_quarter == RDiv(ASC_WEIGHT, Rat(4, 1))

\* line 1503
asc_redistribution == RDiv(ASC_WEIGHT, Rat(3, 1))

asc_weight_redistribution_third == RDiv(ASC_WEIGHT_LLM, Rat(3, 1))

\* line 1542
asc_weight_redistribution == RDiv(ASC_WEIGHT_LLM, Rat(4, 1))

\* lines 1485-1509
HeuristicWeights(df) ==
    IF asc_available(df)
    THEN [c \in {"Duration_Norm", "LowQualityTag_Norm", "UniversalDisagreement_Norm",
                 "ASC_Norm"} |->
            CASE c = "Duration_Norm" -> DURATION_WEIGHT
              [] c = "LowQualityTag_Norm" -> LOW_QUALITY_TAG_WEIGHT
              [] c = "UniversalDisagreement_Norm" -> UNIVERSAL_DISAGREEMENT_WEIGHT
              [] c = "ASC_Norm" -> ASC_WEIGHT]
    ELSE [c \in {"Duration_Norm", "LowQualityTag_Norm", "UniversalDisagreement_Norm"} |->
            CASE c = "Duration_Norm" -> RAdd(DURATION_WEIGHT, asc_redistribution)
              [] c = "LowQualityTag_Norm" -> RAdd(LOW_QUALITY_TAG_WEIGHT, asc_redistribution)
              [] c = "UniversalDisagreement_Norm" ->
                    RAdd(UNIVERSAL_DISAGREEMENT_WEIGHT, asc_redistribution)]

\* lines 1522-1549
EnhancedWeights(df) ==
    IF asc_available(df)
    THEN [c \in {"Duration_Norm", "LowQualityTag_Norm", "UniversalDisagreement_Norm",
                 "ASC_Norm", "LLM_Judge_Norm"} |->
            CASE c = "Duration_Norm" -> DURATION_WEIGHT_LLM
              [] c = "LowQualityTag_Norm" -> LOW_QUALITY_TAG_WEIGHT_LLM
              [] c = "UniversalDisagreement_Norm" -> UNIVERSAL_DISAGREEMENT_WEIGHT_LLM
              [] c = "ASC_Norm" -> ASC_WEIGHT_LLM
              [] c = "LLM_Judge_Norm" -> LLM_JUDGE_WEIGHT]
    ELSE [c \in {"Duration_Norm", "LowQualityTag_Norm", "UniversalDisagreement_Norm",
                 "LLM_Judge_Norm"} |->
            CASE c = "Duration_Norm" -> RAdd(DURATION_WEIGHT_LLM, asc_weight_redistribution)
              [] c = "LowQualityTag_Norm" ->
                    RAdd(LOW_QUALITY_TAG_WEIGHT_LLM, asc_weight_redistribution)
              [] c = "UniversalDisagreement_Norm" ->
                    RAdd(UNIVERSAL_DISAGREEMENT_WEIGHT_LLM, asc_weight_redistribution)
              [] c = "LLM_Judge_Norm" -> RAdd(LLM_JUDGE_WEIGHT, asc_weight_redistribution)]

NoWeights == [c \in {} |-> Zero]

\* row[c1] * w[c1] + row[c2] * w[c2] + ... over the columns of w
RECURSIVE WeightedSum(_, _, _)
WeightedSum(row, w, cs) ==
    IF cs = {} THEN Zero
    ELSE LET c == CHOOSE c \in cs : TRUE
         IN  RAdd(RMul(row[c], w[c]), WeightedSum(row, w, cs \ {c}))

AllMissing(df) == [i \in 1..Len(df) |-> NaN]

\* lines 1483-1568 for one participant: the weighted sums and the scores
FusedRow(row, norms, hw, ew, llm) ==
    LET heur == WeightedSum(norms, hw, DOMAIN hw)
        enh == IF llm THEN WeightedSum(norms, ew, DOMAIN ew) ELSE NaN
        pri == IF llm THEN enh ELSE heur
    IN  [Duration_seconds |-> row.Duration_seconds,
         LowQualityTag_Perc |-> row.LowQualityTag_Perc,
         UniversalDisagreement_Perc |-> row.UniversalDisagreement_Perc,
         ASC_Score_Raw |-> row.ASC_Score_Raw,
         LLM_Judge_Score |-> row.LLM_Judge_Score,
         LLM_models |-> row.LLM_models,
         Duration_Norm |-> norms.Duration_Norm,
         LowQualityTag_Norm |-> norms.LowQualityTag_Norm,
         UniversalDisagreement_Norm |-> norms.UniversalDisagreement_Norm,
         ASC_Norm |-> norms.ASC_Norm,
         LLM_Judge_Norm |-> norms.LLM_Judge_Norm,
         PRI_Score_Heuristic |-> heur,
         PRI_Score_Enhanced |-> enh,
         PRI_Score |-> pri,
         PRI_Scale_1_5 |-> RAdd(RMul(pri, Rat(4, 1)), One)]

RawColumns == {"Duration_seconds", "LowQualityTag_Perc", "UniversalDisagreement_Perc",
               "ASC_Score_Raw"}

FusedColumns(df, cols) ==
    cols \cup {"Duration_Norm", "LowQualityTag_Norm", "UniversalDisagreement_Norm",
               "PRI_Score_Heuristic", "PRI_Score", "PRI_Scale_1_5"}
         \cup (IF asc_available(df) THEN {"ASC_Norm"} ELSE {})
         \cup (IF llm_judge_available(df, cols)
               THEN {"LLM_Judge_Norm", "PRI_Score_Enhanced"} ELSE {})

(* ------------------------- the fusion pipeline ------------------------ *)

\* the raw signals one participant can get from the four calculators
Durations == {Zero, Rat(DURATION_REASONABLE_MAX, 1), Rat(2 * DURATION_REASONABLE_MAX, 1)}

Fractions == {Zero, One}

SignalRows ==
    [Duration_seconds : Durations, LowQualityTag_Perc : Fractions,
     UniversalDisagreement_Perc : Fractions, ASC_Score_Raw : Fractions \cup {NaN}]
    \cup {[Duration_seconds |-> NaN, LowQualityTag_Perc |-> NaN,
           UniversalDisagreement_Perc |-> NaN, ASC_Score_Raw |-> NaN]}

\* what the batch returns for one participant judged by one model: every
\* judge failed, or the judge gave a score
JudgeOutcomes ==
    {process_results(<< Call("returned", r, call_llm_judge(1, r)) >>) :
        r \in {Reply("timeout", 0, << >>),
               Reply("response", 200, << "LB", "KV_OK", "RSN", "RB" >>)}}

\* an order on the raw signals of two participants, NaN first
ValueLe(a, b) == IsNaN(a) \/ (~IsNaN(b) /\ RLe(a, b))

RECURSIVE LexLe(_, _)
LexLe(a, b) ==
    IF a = << >> THEN TRUE
    ELSE IF Head(a) # Head(b) THEN ValueLe(Head(a), Head(b))
    ELSE LexLe(Tail(a), Tail(b))

RowLe(a, b) ==
    LexLe(<< a.Duration_seconds, a.LowQualityTag_Perc, a.UniversalDisagreement_Perc,
             a.ASC_Score_Raw >>,
          << b.Duration_seconds, b.LowQualityTag_Perc, b.UniversalDisagreement_Perc,
             b.ASC_Score_Raw >>)

\* The columns are normalized as wholes and the scores are computed row by
\* row, so the order of the participants does not matter: the tables are
\* taken with their rows in ascending order of the raw signals, each row
\* with any outcome of the judge.
FusionInit ==
    /\ \E n \in 1..MaxPop : signal_rows \in [1..n -> SignalRows]
    /\ \A i \in 1..(Len(signal_rows) - 1) : RowLe(signal_rows[i], signal_rows[i + 1])
    /\ enable_llm_judge \in BOOLEAN
    /\ IF enable_llm_judge
       THEN llm_results \in [1..Len(signal_rows) -> JudgeOutcomes]
       ELSE llm_results = << >>
    /\ pri_signals_df = << >>
    /\ columns = {}
    /\ heuristic_weights = NoWeights
    /\ enhanced_weights = NoWeights
    /\ unreliable_participants = << >>
    /\ normalize_call = NoCall
    /\ fusion_pc = "signals"

\* lines 1365-1399: the judge's results are merged into the rows and the
\* DataFrame is built
signals_table(rows, judged_results, enabled) ==
    [i \in 1..Len(rows) |->
        [Duration_seconds |-> rows[i].Duration_seconds,
         LowQualityTag_Perc |-> rows[i].LowQualityTag_Perc,
         UniversalDisagreement_Perc |-> rows[i].UniversalDisagreement_Perc,
         ASC_Score_Raw |-> rows[i].ASC_Score_Raw,
         LLM_Judge_Score |->
             IF ~enabled THEN NaN
             ELSE IF i \in DOMAIN judged_results THEN judged_results[i].score
             ELSE Half,
         LLM_models |->
             IF enabled /\ i \in DOMAIN judged_results
             THEN [m \in DOMAIN judged_results[i].individual_scores |->
                      judged_results[i].individual_scores[m].confidence_score]
             ELSE [m \in {} |-> NaN]]]

\* lines 1397-1399: the columns of that DataFrame
signals_columns(enabled) ==
    RawColumns \cup (IF enabled THEN {"LLM_Judge_Score"} ELSE {})

\* lines 1365-1399: the tail of calculate_all_pri_signals
BuildTable ==
    /\ fusion_pc = "signals"
    /\ pri_signals_df' = signals_table(signal_rows, llm_results, enable_llm_judge)
    /\ columns' = signals_columns(enable_llm_judge)
    /\ fusion_pc' = "table"
    /\ UNCHANGED << enable_llm_judge, signal_rows, llm_results, heuristic_weights,
                    enhanced_weights, unreliable_participants, normalize_call,
                    judgeVars, callVars, signalVars >>

\* lines 1402-1571: each normalized column is computed once and assigned,
\* then the weighted sums are taken row by row
NormalizeAndCalculatePri ==
    /\ fusion_pc = "table"
    /\ \E Duration_Norm \in
             {min_max_normalize(Column(pri_signals_df, "Duration_seconds"), FALSE,
                                Rat(DURATION_REASONABLE_MAX, 1))},
          LowQualityTag_Norm \in
             {min_max_normalize(Column(pri_signals_df, "LowQualityTag_Perc"), TRUE, NaN)},
          UniversalDisagreement_Norm \in
             {min_max_normalize(Column(pri_signals_df, "UniversalDisagreement_Perc"),
                                TRUE, NaN)},
          ASC_Norm \in
             {IF asc_available(pri_signals_df)
              THEN min_max_normalize(Column(pri_signals_df, "ASC_Score_Raw"), TRUE, NaN)
              ELSE AllMissing(pri_signals_df)},
          LLM_Judge_Norm \in
             {IF llm_judge_available(pri_signals_df, columns)
              THEN min_max_normalize(Column(pri_signals_df, "LLM_Judge_Score"), FALSE, NaN)
              ELSE AllMissing(pri_signals_df)},
          hw \in {HeuristicWeights(pri_signals_df)},
          ew \in {EnhancedWeights(pri_signals_df)},
          llm \in {llm_judge_available(pri_signals_df, columns)} :
          /\ pri_signals_df' =
                [i \in 1..Len(pri_signals_df) |->
                    FusedRow(pri_signals_df[i],
                             [Duration_Norm |-> Duration_Norm[i],
                              LowQualityTag_Norm |-> LowQualityTag_Norm[i],
                              UniversalDisagreement_Norm |-> UniversalDisagreement_Norm[i],
                              ASC_Norm |-> ASC_Norm[i],
                              LLM_Judge_Norm |-> LLM_Judge_Norm[i]],
                             hw, ew, llm)]
          /\ heuristic_weights' = hw
          /\ enhanced_weights' = IF llm THEN ew ELSE NoWeights
    /\ columns' = FusedColumns(pri_signals_df, columns)
    /\ fusion_pc' = "fused"
    /\ UNCHANGED << enable_llm_judge, signal_rows, llm_results, unreliable_participants,
                    normalize_call, judgeVars, callVars, signalVars >>

FusionNext == BuildTable \/ NormalizeAndCalculatePri

FusionIdle ==
    /\ enable_llm_judge = FALSE
    /\ signal_rows = << >>
    /\ llm_results = << >>
    /\ pri_signals_df = << >>
    /\ columns = {}
    /\ heuristic_weights = NoWeights
    /\ enhanced_weights = NoWeights
    /\ unreliable_participants = << >>
    /\ normalize_call = NoCall
    /\ fusion_pc = "unused"

(* ------------------------------ load_data ----------------------------- *)

\* a cell of a Timestamp column: a time in the expected format (seconds
\* since the start of the survey), text in another format, or nothing
TimeCell(kind, seconds) == [kind |-> kind, seconds |-> seconds]

\* pd.to_datetime(..., errors='coerce'): NaT is NaN here
to_datetime(cell) == IF cell.kind = "time" THEN Rat(cell.seconds, 1) ELSE NaN

\* lines 168-172: binary_df['Vote'].map({...}).astype(float)
VoteNumeric(vote) ==
    CASE vote \in {"Agree", "agree"} -> One
      [] vote \in {"Disagree", "disagree"} -> Zero
      [] OTHER -> NaN

\* a cell of an agreement column: the string "<value>%", the number
\* <value>, the string "-", or nothing
PercentCell(kind, value) == [kind |-> kind, value |-> value]

\* lines 273-296
parse_percentage(cell) ==
    CASE cell.kind = "percent" -> RDiv(cell.value, Rat(100, 1))
      [] cell.kind = "number" ->
            IF RLt(One, cell.value) THEN RDiv(cell.value, Rat(100, 1)) ELSE cell.value
      [] OTHER -> NaN

\* a CSV file: readable or not, its columns and its rows
File(readable, cols, rows) == [readable |-> readable, columns |-> cols, rows |-> rows]

\* a DataFrame: its columns and its rows
Table(cols, rows) == [columns |-> cols, rows |-> rows]

BinaryColumns == {"Participant ID", "Thought ID", "Vote", "Timestamp"}

\* the segment columns of the aggregate file that are major segments
MajorSegments == {"O1", "O2"}

AgreementColumn(col) ==
    CASE col = "All" -> "All_Agreement"
      [] col = "O1" -> "O1_Agreement"
      [] col = "O2" -> "O2_Agreement"

\* series.unique(): the values in order of first appearance
RECURSIVE Unique(_)
Unique(seq) ==
    IF seq = << >> THEN << >>
    ELSE LET front == Unique(SubSeq(seq, 1, Len(seq) - 1))
             last == seq[Len(seq)]
         IN  IF \E k \in DOMAIN front : front[k] = last THEN front
             ELSE Append(front, last)

\* lines 156-178: the binary votes with Timestamp parsed and VoteNumeric added
LoadBinary(file) ==
    Table(file.columns \cup (IF "Vote" \in file.columns THEN {"VoteNumeric"} ELSE {}),
          [k \in DOMAIN file.rows |->
              [pid |-> file.rows[k].pid,
               thought |-> file.rows[k].thought,
               Timestamp |-> to_datetime(file.rows[k].Timestamp),
               VoteNumeric |-> IF "Vote" \in file.columns
                               THEN VoteNumeric(file.rows[k].Vote) ELSE NaN]])

\* lines 181-195
LoadPreference(file) ==
    Table(file.columns,
          [k \in DOMAIN file.rows |->
              [pid |-> file.rows[k].pid,
               Timestamp |-> to_datetime(file.rows[k].Timestamp)]])

\* lines 198-203: a failure to read the tags is not fatal
LoadThoughtLabels(file) ==
    IF file.readable THEN Table(file.columns, file.rows)
    ELSE Table({"Participant ID", "Question ID"}, << >>)

\* lines 214-241: the aggregate table with its agreement columns parsed
LoadAggregate(file) ==
    Table(file.columns \cup {AgreementColumn(c) : c \in file.columns \cap ({"All"} \cup MajorSegments)},
          [k \in DOMAIN file.rows |->
              [question |-> file.rows[k].question,
               pid |-> file.rows[k].pid,
               All_Agreement |-> IF "All" \in file.columns
                                 THEN parse_percentage(file.rows[k].All) ELSE NaN,
               O1_Agreement |-> IF "O1" \in file.columns
                                THEN parse_percentage(file.rows[k].O1) ELSE NaN,
               O2_Agreement |-> IF "O2" \in file.columns
                                THEN parse_percentage(file.rows[k].O2) ELSE NaN]])

NoData == [exited |-> TRUE]

\* lines 141-270, and main's handler at lines 2436-2440: the tuple of tables,
\* or NoData when the run ended in sys.exit(1)
load_data(files) ==
    IF \/ ~files.binary.readable
       \/ ~files.preference.readable
       \/ ~files.verbatim_map.readable
       \/ ~files.aggregate.readable
       \/ "Participant ID" \notin files.binary.columns
    THEN NoData
    ELSE [exited |-> FALSE,
          binary_df |-> LoadBinary(files.binary),
          preference_df |-> LoadPreference(files.preference),
          thought_labels_df |-> LoadThoughtLabels(files.thought_labels),
          verbatim_map_df |-> Table(files.verbatim_map.columns, files.verbatim_map.rows),
          aggregate_std_df |-> LoadAggregate(files.aggregate),
          all_participant_ids |->
              Unique([k \in DOMAIN files.binary.rows |-> files.binary.rows[k].pid]),
          major_segments |-> MajorSegments]

(* ------------------------- the signal calculators --------------------- *)

UNIVERSAL_DISAGREEMENT_THRESHOLD_ALL == Rat(30, 100)

UNIVERSAL_DISAGREEMENT_THRESHOLD_SEGMENTS == Rat(40, 100)

ASC_HIGH_THRESHOLD == Rat(70, 100)

ASC_LOW_THRESHOLD == Rat(30, 100)

\* the thresholds of the config dict of get_config
DefaultConfig ==
    [ASC_HIGH_THRESHOLD |-> ASC_HIGH_THRESHOLD, ASC_LOW_THRESHOLD |-> ASC_LOW_THRESHOLD]

\* df[df[...] == ...]: the rows that pass a test, in order
RowsWhere(rows, kept) ==
    [j \in 1..Cardinality(kept) |->
        rows[CHOOSE k \in kept : Cardinality({m \in kept : m <= k}) = j]]

\* lines 371-376: the participant's timestamps of both tables, NaT dropped
all_times(participant_id, binary_df, preference_df) ==
    LET Mine(row) == row.pid = participant_id /\ ~IsNaN(row.Timestamp)
        participant_binary_times == RowsWhere(binary_df.rows, {k \in DOMAIN binary_df.rows : Mine(binary_df.rows[k])})
        participant_pref_times == RowsWhere(preference_df.rows, {k \in DOMAIN preference_df.rows : Mine(preference_df.rows[k])})
    IN  [k \in DOMAIN participant_binary_times |-> participant_binary_times[k].Timestamp]
        \o [k \in DOMAIN participant_pref_times |-> participant_pref_times[k].Timestamp]

\* mutant: a participant with fewer than 2 timestamps has no duration
calculate_duration_missing_when_short(participant_id, binary_df, preference_df) ==
    LET times == all_times(participant_id, binary_df, preference_df)
    IN  IF Len(times) < 2 THEN NaN
        ELSE RSub(RMaxOf(Range(times)), RMinOf(Range(times)))

\* lines 355-392, in seconds
calculate_duration(participant_id, binary_df, preference_df) ==
    LET times == all_times(participant_id, binary_df, preference_df)
    IN  IF Len(times) < 2 THEN Zero
        ELSE RSub(RMaxOf(Range(times)), RMinOf(Range(times)))

\* lines 395-447
calculate_low_quality_tag_percentage(participant_id, thought_labels_df) ==
    LET Mine(row) == row.pid = participant_id
        Low(row) == row.pid = participant_id /\ row.Tag1 = "Uninformative answer"
        participant_labels == RowsWhere(thought_labels_df.rows, {k \in DOMAIN thought_labels_df.rows : Mine(thought_labels_df.rows[k])})
    IN  IF thought_labels_df.rows = << >> THEN Zero
        ELSE IF participant_labels = << >> THEN Zero
        ELSE IF "Tag 1" \notin thought_labels_df.columns THEN Zero
        ELSE Rat(Len(RowsWhere(thought_labels_df.rows, {k \in DOMAIN thought_labels_df.rows : Low(thought_labels_df.rows[k])})), Len(participant_labels))

\* lines 470, 484-489: the thoughts the participant authored, each with the
\* question of the first row of the map that has the thought
authored_thought_ids(participant_id, verbatim_map_df) ==
    LET Mine(row) == row.pid = participant_id
        mine == RowsWhere(verbatim_map_df.rows, {k \in DOMAIN verbatim_map_df.rows : Mine(verbatim_map_df.rows[k])})
    IN  Unique([k \in DOMAIN mine |-> mine[k].thought])

QuestionOf(thought_id, verbatim_map_df) ==
    LET Same(row) == row.thought = thought_id
    IN  RowsWhere(verbatim_map_df.rows, {k \in DOMAIN verbatim_map_df.rows : Same(verbatim_map_df.rows[k])})[1].question

\* lines 494-497
question_data(participant_id, question_id, aggregate_std_df) ==
    LET Match(row) == row.question = question_id /\ row.pid = participant_id
    IN  RowsWhere(aggregate_std_df.rows, {k \in DOMAIN aggregate_std_df.rows : Match(aggregate_std_df.rows[k])})

\* lines 503-512: the highest agreement among the major segments, NaN when
\* there is no segment column or no segment value
max_segment_agreement_value(row, aggregate_std_df, major_segments) ==
    LET values == {row[AgreementColumn(c)] :
                      c \in {c \in major_segments :
                                AgreementColumn(c) \in aggregate_std_df.columns}}
        present == {v \in values : ~IsNaN(v)}
    IN  IF present = {} THEN NaN ELSE RMaxOf(present)

\* lines 482-529: one entry per authored thought that has agreement data
authored_thoughts_data(participant_id, verbatim_map_df, aggregate_std_df, major_segments) ==
    LET ids == authored_thought_ids(participant_id, verbatim_map_df)
        Data(thought_id) ==
            question_data(participant_id, QuestionOf(thought_id, verbatim_map_df),
                          aggregate_std_df)
        Evaluable(thought_id) ==
            /\ Data(thought_id) # << >>
            /\ "All_Agreement" \in aggregate_std_df.columns
            /\ ~IsNaN(Data(thought_id)[1].All_Agreement)
        kept == RowsWhere(ids, {k \in DOMAIN ids : Evaluable(ids[k])})
    IN  [k \in DOMAIN kept |->
            [All_Agreement |-> Data(kept[k])[1].All_Agreement,
             Max_Segment_Agreement |->
                 max_segment_agreement_value(Data(kept[k])[1], aggregate_std_df,
                                             major_segments)]]

\* line 544
is_universally_disagreed(entry) ==
    \/ RLt(entry.All_Agreement, UNIVERSAL_DISAGREEMENT_THRESHOLD_ALL)
    \/ RLt(entry.Max_Segment_Agreement, UNIVERSAL_DISAGREEMENT_THRESHOLD_SEGMENTS)

\* lines 450-549
calculate_universal_disagreement_percentage(participant_id, verbatim_map_df, aggregate_std_df, major_segments) ==
    LET data == authored_thoughts_data(participant_id, verbatim_map_df,
                                       aggregate_std_df, major_segments)
    IN  IF data = << >> THEN Zero
        ELSE Rat(Len(RowsWhere(data, {k \in DOMAIN data : is_universally_disagreed(data[k])})), Len(data))

\* mutant: the last row of a question wins
question_agreement_map_last(aggregate_std_df) ==
    LET Valid(row) == "All_Agreement" \in aggregate_std_df.columns
                      /\ ~IsNaN(row.All_Agreement)
        valid == RowsWhere(aggregate_std_df.rows, {k \in DOMAIN aggregate_std_df.rows : Valid(aggregate_std_df.rows[k])})
        questions == {valid[k].question : k \in DOMAIN valid}
    IN  [q \in questions |->
            valid[CHOOSE k \in DOMAIN valid :
                     /\ valid[k].question = q
                     /\ \A j \in DOMAIN valid : valid[j].question = q => j <= k].All_Agreement]

\* lines 572-587: the highest agreement of each question that has one
question_agreement_map(aggregate_std_df) ==
    LET Valid(row) == "All_Agreement" \in aggregate_std_df.columns
                      /\ ~IsNaN(row.All_Agreement)
        valid == RowsWhere(aggregate_std_df.rows, {k \in DOMAIN aggregate_std_df.rows : Valid(aggregate_std_df.rows[k])})
        questions == {valid[k].question : k \in DOMAIN valid}
    IN  [q \in questions |->
            RMaxOf({valid[k].All_Agreement : k \in {k \in DOMAIN valid : valid[k].question = q}})]

\* line 604: dict(zip(...)), the last row of a thought wins
thought_to_question(verbatim_map_df) ==
    LET rows == verbatim_map_df.rows
    IN  [t \in {rows[k].thought : k \in DOMAIN rows} |->
            rows[CHOOSE k \in DOMAIN rows :
                    /\ rows[k].thought = t
                    /\ \A j \in DOMAIN rows : rows[j].thought = t => j <= k].question]

\* mutant: thoughts classified by an earlier run are not classified again
precompute_consensus_data_new_only(binary_df, verbatim_map_df, aggregate_std_df, config) ==
    LET agreement == question_agreement_map(aggregate_std_df)
        question == thought_to_question(verbatim_map_df)
        known == consensus_data.strong_agree_thoughts
                    \cup consensus_data.strong_disagree_thoughts
        mapped == {t \in DOMAIN question : question[t] \in DOMAIN agreement} \ known
        strong_agree == {t \in mapped : RLe(config.ASC_HIGH_THRESHOLD, agreement[question[t]])}
    IN  [strong_agree_thoughts |-> strong_agree,
         strong_disagree_thoughts |->
             {t \in mapped \ strong_agree : RLe(agreement[question[t]], config.ASC_LOW_THRESHOLD)}]

\* mutant: the two tests are made independently of each other
precompute_consensus_data_two_ifs(binary_df, verbatim_map_df, aggregate_std_df, config) ==
    LET agreement == question_agreement_map(aggregate_std_df)
        question == thought_to_question(verbatim_map_df)
        mapped == {t \in DOMAIN question : question[t] \in DOMAIN agreement}
    IN  [strong_agree_thoughts |->
             {t \in mapped : RLe(config.ASC_HIGH_THRESHOLD, agreement[question[t]])},
         strong_disagree_thoughts |->
             {t \in mapped : RLe(agreement[question[t]], config.ASC_LOW_THRESHOLD)}]

\* lines 552-640
precompute_consensus_data(binary_df, verbatim_map_df, aggregate_std_df, config) ==
    LET agreement == question_agreement_map(aggregate_std_df)
        question == thought_to_question(verbatim_map_df)
        mapped == {t \in DOMAIN question : question[t] \in DOMAIN agreement}
        strong_agree == {t \in mapped : RLe(config.ASC_HIGH_THRESHOLD, agreement[question[t]])}
    IN  [strong_agree_thoughts |-> strong_agree,
         strong_disagree_thoughts |->
             {t \in mapped \ strong_agree : RLe(agreement[question[t]], config.ASC_LOW_THRESHOLD)}]

\* lines 674-677: the participant's votes on consensus thoughts
consensus_votes(participant_id, binary_df, consensus) ==
    LET OnConsensus(row) ==
            /\ row.pid = participant_id
            /\ row.thought \in consensus.strong_agree_thoughts
                                \cup consensus.strong_disagree_thoughts
    IN  RowsWhere(binary_df.rows, {k \in DOMAIN binary_df.rows : OnConsensus(binary_df.rows[k])})

\* a KeyError in calculate_asc_score: the Thought ID column is looked up
\* when there are consensus thoughts (line 677), the VoteNumeric column
\* for each vote on one of them (line 691)
asc_raises(participant_id, binary_df, consensus) ==
    /\ consensus.strong_agree_thoughts \cup consensus.strong_disagree_thoughts # {}
    /\ \/ "Thought ID" \notin binary_df.columns
       \/ /\ consensus_votes(participant_id, binary_df, consensus) # << >>
          /\ "VoteNumeric" \notin binary_df.columns

\* mutant: a participant without valid consensus votes scores 0
calculate_asc_score_zero_when_none(participant_id, binary_df, consensus) ==
    LET votes == consensus_votes(participant_id, binary_df, consensus)
        Valid(row) == ~IsNaN(row.VoteNumeric)
        Against(row) ==
            \/ row.thought \in consensus.strong_agree_thoughts /\ row.VoteNumeric = Zero
            \/ row.thought \in consensus.strong_disagree_thoughts /\ row.VoteNumeric = One
        total_consensus_votes == Len(RowsWhere(votes, {k \in DOMAIN votes : Valid(votes[k])}))
    IN  IF total_consensus_votes = 0 THEN Zero
        ELSE Rat(Len(RowsWhere(votes, {k \in DOMAIN votes : Against(votes[k])})), total_consensus_votes)

\* lines 643-715
calculate_asc_score(participant_id, binary_df, consensus) ==
    LET votes == consensus_votes(participant_id, binary_df, consensus)
        Valid(row) == ~IsNaN(row.VoteNumeric)
        Against(row) ==
            \/ row.thought \in consensus.strong_agree_thoughts /\ row.VoteNumeric = Zero
            \/ row.thought \in consensus.strong_disagree_thoughts /\ row.VoteNumeric = One
        total_consensus_votes == Len(RowsWhere(votes, {k \in DOMAIN votes : Valid(votes[k])}))
    IN  IF total_consensus_votes = 0 THEN NaN
        ELSE Rat(Len(RowsWhere(votes, {k \in DOMAIN votes : Against(votes[k])})), total_consensus_votes)

(* ---------------- main: load_data, calculate_all_pri_signals ---------- *)

TimeCells == {TimeCell("time", 10), TimeCell("time", 70), TimeCell("garbled", 0)}

Pct(v) == PercentCell("percent", Rat(v, 1))

Dash == PercentCell("dash", Zero)

\* The survey of the files: participant 1 wrote thought 1 on question 1,
\* participant 2 wrote thought 2 on question 2; thought 3 is on no question
\* of the aggregate file.
BaseVerbatimRows ==
    << [pid |-> 1, thought |-> 1, question |-> 1],
       [pid |-> 2, thought |-> 2, question |-> 2],
       [pid |-> 2, thought |-> 3, question |-> 3] >>

BaseAggregateRows ==
    << [question |-> 1, pid |-> 1, All |-> Pct(80), O1 |-> Pct(50), O2 |-> Dash],
       [question |-> 2, pid |-> 2, All |-> Pct(20), O1 |-> Pct(50), O2 |-> Dash] >>

BaseBinaryRows ==
    << [pid |-> 1, thought |-> 1, Vote |-> "Agree", Timestamp |-> TimeCell("time", 10)],
       [pid |-> 1, thought |-> 2, Vote |-> "Agree", Timestamp |-> TimeCell("time", 70)],
       [pid |-> 2, thought |-> 3, Vote |-> "Disagree", Timestamp |-> TimeCell("time", 10)] >>

BasePreferenceRows == << [pid |-> 1, Timestamp |-> TimeCell("time", 70)] >>

BaseLabelRows ==
    << [pid |-> 1, Tag1 |-> "Uninformative answer"], [pid |-> 2, Tag1 |-> "Other"] >>

AggregateColumns == {"Question ID", "Participant ID", "All", "O1", "O2"}

BinaryFile(cols, rows) == File(TRUE, cols, rows)

PreferenceFile(rows) == File(TRUE, {"Participant ID", "Timestamp"}, rows)

VerbatimFile(rows) == File(TRUE, {"Participant ID", "Thought ID", "Question ID"}, rows)

AggregateFile(cols, rows) == File(TRUE, cols, rows)

LabelsFile == File(TRUE, {"Participant ID", "Tag 1"}, BaseLabelRows)

Files(binary, preference, verbatim_map, aggregate) ==
    [binary |-> binary, preference |-> preference, thought_labels |-> LabelsFile,
     verbatim_map |-> verbatim_map, aggregate |-> aggregate]

BaseFiles ==
    Files(BinaryFile(BinaryColumns, BaseBinaryRows), PreferenceFile(BasePreferenceRows),
          VerbatimFile(BaseVerbatimRows), AggregateFile(AggregateColumns, BaseAggregateRows))

SeqsUpTo(S, lo, hi) == UNION {[1..n -> S] : n \in lo..hi}

\* the timestamps vary
TimestampFiles ==
    {Files(BinaryFile(BinaryColumns, b), PreferenceFile(p), VerbatimFile(BaseVerbatimRows),
           AggregateFile(AggregateColumns, BaseAggregateRows)) :
        b \in SeqsUpTo([pid : {1, 2}, thought : {1}, Vote : {"Agree"}, Timestamp : TimeCells],
                       1, MaxTimes),
        p \in SeqsUpTo([pid : {1}, Timestamp : TimeCells], 0, 1)}

\* participant 1's votes and the agreement on question 1 vary
VoteFiles ==
    {Files(BinaryFile(BinaryColumns, b), PreferenceFile(BasePreferenceRows),
           VerbatimFile(BaseVerbatimRows),
           AggregateFile(AggregateColumns,
                         [BaseAggregateRows EXCEPT ![1] = [@ EXCEPT !.All = a]])) :
        b \in SeqsUpTo([pid : {1}, thought : {1, 2}, Vote : {"Agree", "disagree", "Unsure"},
                        Timestamp : {TimeCell("time", 10)}], 1, MaxVotes),
        a \in {Pct(80), Pct(70), Pct(50), Dash}}

\* the spelling of participant 1's votes on the items of questions 1 (80%
\* agreement) and 2 (20%) varies
VoteSpellings ==
    {"Agree", "agree", "AGREE", "Disagree", "disagree", "DISAGREE", "Unsure"}

SpellingFiles ==
    {Files(BinaryFile(BinaryColumns, b), PreferenceFile(BasePreferenceRows),
           VerbatimFile(BaseVerbatimRows),
           AggregateFile(AggregateColumns, BaseAggregateRows)) :
        b \in SeqsUpTo([pid : {1}, thought : {1, 2}, Vote : VoteSpellings,
                        Timestamp : {TimeCell("time", 10)}], 1, MaxSpelledVotes)}

\* participant 1 wrote on both questions; the agreement on them varies, and
\* so does the presence of the segment columns
AgreementFiles ==
    {Files(BinaryFile(BinaryColumns, BaseBinaryRows), PreferenceFile(BasePreferenceRows),
           VerbatimFile(<< [pid |-> 1, thought |-> 1, question |-> 1],
                           [pid |-> 1, thought |-> 2, question |-> 2] >>),
           AggregateFile(cols,
                         << [question |-> 1, pid |-> 1, All |-> a1, O1 |-> s1, O2 |-> Dash],
                            [question |-> 2, pid |-> 1, All |-> a2, O1 |-> s2, O2 |-> Dash] >>)) :
        cols \in {AggregateColumns, AggregateColumns \ MajorSegments},
        a1 \in {Pct(20), Pct(30), Pct(50), Dash}, s1 \in {Pct(30), Pct(40), Pct(50), Dash},
        a2 \in {Pct(20), Pct(50)}, s2 \in {Pct(40), Pct(50)}}

\* files that cannot be read, and columns that are absent
BrokenFiles ==
    {[binary |-> File(rb, bc, BaseBinaryRows),
      preference |-> File(rp, {"Participant ID", "Timestamp"}, BasePreferenceRows),
      thought_labels |-> File(rl, {"Participant ID", "Tag 1"}, BaseLabelRows),
      verbatim_map |-> File(rv, {"Participant ID", "Thought ID", "Question ID"},
                            BaseVerbatimRows),
      aggregate |-> File(ra, ac, BaseAggregateRows)] :
        rb \in BOOLEAN, rp \in BOOLEAN, rl \in BOOLEAN, rv \in BOOLEAN, ra \in BOOLEAN,
        bc \in {BinaryColumns} \cup {BinaryColumns \ {c} : c \in BinaryColumns},
        ac \in {AggregateColumns, AggregateColumns \ {"All"}}}

\* the agreement rates of the questions vary, a question may have several
\* rows, and so may the thresholds
ConsensusFiles ==
    {Files(BinaryFile(BinaryColumns, BaseBinaryRows), PreferenceFile(BasePreferenceRows),
           VerbatimFile(BaseVerbatimRows), AggregateFile(AggregateColumns, a)) :
        a \in SeqsUpTo({[question |-> q, pid |-> 1, All |-> r, O1 |-> Pct(50), O2 |-> Dash] :
                           q \in {1, 2}, r \in {Pct(30), Pct(50), Pct(70), Dash}},
                       1, MaxAggregateRows)}

\* the default thresholds, equal thresholds, and a low threshold above the high
ThresholdConfigs ==
    {[ASC_HIGH_THRESHOLD |-> Rat(hl[1], 100), ASC_LOW_THRESHOLD |-> Rat(hl[2], 100)] :
        hl \in {<< 70, 30 >>, << 50, 50 >>, << 30, 70 >>}}

NoConsensus == [strong_agree_thoughts |-> {}, strong_disagree_thoughts |-> {}]

SignalsInit ==
    /\ \/ /\ source_files \in TimestampFiles \cup VoteFiles \cup SpellingFiles
                                \cup AgreementFiles \cup BrokenFiles
          /\ run_config = DefaultConfig
       \/ /\ source_files \in ConsensusFiles
          /\ run_config \in ThresholdConfigs
    /\ data_tuple = NoData
    /\ consensus_data = NoConsensus
    /\ consensus_calls = 0
    /\ pri_results = << >>
    /\ participant_idx = 0
    /\ run = 1
    /\ signals_pc = "start"

\* lines 2435-2440
LoadData ==
    /\ signals_pc = "start"
    /\ data_tuple' = load_data(source_files)
    /\ signals_pc' = IF data_tuple'.exited THEN "exited" ELSE "loaded"
    /\ UNCHANGED << source_files, run_config, consensus_data, consensus_calls, pri_results,
                    participant_idx, run, judgeVars, callVars, fusionVars >>

\* lines 1264-1285: the consensus data are computed, then the timestamp
\* columns are selected, which raises out of the run when one is absent
PrecomputeConsensus ==
    /\ signals_pc = "loaded"
    /\ consensus_data' = precompute_consensus_data(data_tuple.binary_df,
                                                    data_tuple.verbatim_map_df,
                                                    data_tuple.aggregate_std_df,
                                                    run_config)
    /\ consensus_calls' = consensus_calls + 1
    /\ pri_results' = << >>
    /\ participant_idx' = 0
    /\ signals_pc' = IF "Timestamp" \in data_tuple.binary_df.columns
                     THEN "loop" ELSE "raised"
    /\ UNCHANGED << source_files, run_config, data_tuple, run, judgeVars, callVars, fusionVars >>

\* mutant: the signals of a participant whose calculators raised are zero
error_dict_zero(participant_id) ==
    [pid |-> participant_id, Duration_seconds |-> Zero, LowQualityTag_Perc |-> Zero,
     UniversalDisagreement_Perc |-> Zero, ASC_Score_Raw |-> Zero]

\* lines 1348-1362
error_dict(participant_id) ==
    [pid |-> participant_id, Duration_seconds |-> NaN, LowQualityTag_Perc |-> NaN,
     UniversalDisagreement_Perc |-> NaN, ASC_Score_Raw |-> NaN]

\* lines 1299-1347
result_dict(participant_id, data, consensus) ==
    IF asc_raises(participant_id, data.binary_df, consensus)
    THEN error_dict(participant_id)
    ELSE [pid |-> participant_id,
          Duration_seconds |->
              calculate_duration(participant_id, data.binary_df, data.preference_df),
          LowQualityTag_Perc |->
              calculate_low_quality_tag_percentage(participant_id, data.thought_labels_df),
          UniversalDisagreement_Perc |->
              calculate_universal_disagreement_percentage(
                  participant_id, data.verbatim_map_df, data.aggregate_std_df,
                  data.major_segments),
          ASC_Score_Raw |-> calculate_asc_score(participant_id, data.binary_df, consensus)]

\* mutant: the consensus data are computed again in every pass of the loop
ProcessParticipant_recomputes ==
    /\ signals_pc = "loop"
    /\ participant_idx < Len(data_tuple.all_participant_ids)
    /\ consensus_data' = precompute_consensus_data(data_tuple.binary_df,
                                                    data_tuple.verbatim_map_df,
                                                    data_tuple.aggregate_std_df,
                                                    run_config)
    /\ consensus_calls' = consensus_calls + 1
    /\ pri_results' =
          Append(pri_results,
                 result_dict(data_tuple.all_participant_ids[participant_idx + 1],
                             data_tuple, consensus_data'))
    /\ participant_idx' = participant_idx + 1
    /\ UNCHANGED << source_files, run_config, data_tuple, run, signals_pc,
                    judgeVars, callVars, fusionVars >>

\* lines 1291-1362: one pass of the loop over all_participant_ids
ProcessParticipant ==
    /\ signals_pc = "loop"
    /\ participant_idx < Len(data_tuple.all_participant_ids)
    /\ pri_results' =
          Append(pri_results,
                 result_dict(data_tuple.all_participant_ids[participant_idx + 1],
                             data_tuple, consensus_data))
    /\ participant_idx' = participant_idx + 1
    /\ UNCHANGED << source_files, run_config, data_tuple, consensus_data, consensus_calls, run,
                    signals_pc, judgeVars, callVars, fusionVars >>

\* lines 1397-1399
ReturnSignals ==
    /\ signals_pc = "loop"
    /\ participant_idx = Len(data_tuple.all_participant_ids)
    /\ signals_pc' = "returned"
    /\ UNCHANGED << source_files, run_config, data_tuple, consensus_data, consensus_calls,
                    pri_results, participant_idx, run, judgeVars, callVars, fusionVars >>

\* main is run again over the same files; what the earlier run computed is
\* kept for comparison
RunAgain ==
    /\ signals_pc = "returned"
    /\ run < MaxRuns
    /\ run' = run + 1
    /\ signals_pc' = "start"
    /\ consensus_calls' = 0
    /\ UNCHANGED << source_files, run_config, data_tuple, consensus_data, pri_results,
                    participant_idx, judgeVars, callVars, fusionVars >>

SignalsNext ==
    \/ LoadData
    \/ PrecomputeConsensus
    \/ ProcessParticipant
    \/ ReturnSignals
    \/ RunAgain

SignalsIdle ==
    /\ source_files = << >>
    /\ run_config = DefaultConfig
    /\ data_tuple = NoData
    /\ consensus_data = NoConsensus
    /\ consensus_calls = 0
    /\ pri_results = << >>
    /\ participant_idx = 0
    /\ run = 0
    /\ signals_pc = "unused"

(* ---------------------- min_max_normalize alone ----------------------- *)

\* the raw values of the series normalized on their own: durations around
\* DURATION_REASONABLE_MAX, and a missing value
SeriesValues ==
    {Zero, Rat(DURATION_REASONABLE_MAX \div 2, 1), Rat(DURATION_REASONABLE_MAX, 1),
     Rat(2 * DURATION_REASONABLE_MAX, 1), NaN}

NormalizeInit ==
    /\ \E n \in 1..MaxSeries :
          \E s \in [1..n -> SeriesValues], inv \in BOOLEAN,
             rm \in {NaN, Rat(DURATION_REASONABLE_MAX, 1)} :
                normalize_call = [NoCall EXCEPT !.series = s, !.invert = inv,
                                                !.reasonable_max = rm]
    /\ fusion_pc = "normalize"
    /\ enable_llm_judge = FALSE
    /\ signal_rows = << >>
    /\ llm_results = << >>
    /\ pri_signals_df = << >>
    /\ columns = {}
    /\ heuristic_weights = NoWeights
    /\ enhanced_weights = NoWeights
    /\ unreliable_participants = << >>

\* lines 1423-1458: one call of min_max_normalize
MinMaxNormalize ==
    /\ fusion_pc = "normalize"
    /\ normalize_call' =
          [normalize_call EXCEPT
              !.min_val = IF AllNaN(normalize_call.series) THEN NaN
                          ELSE RMinOf(Range(filled_series(normalize_call.series))),
              !.max_val = IF AllNaN(normalize_call.series) THEN NaN
                          ELSE RMaxOf(Range(filled_series(normalize_call.series))),
              !.normalized = min_max_normalize(normalize_call.series, normalize_call.invert,
                                               normalize_call.reasonable_max)]
    /\ fusion_pc' = "normalized"
    /\ UNCHANGED << enable_llm_judge, signal_rows, llm_results, pri_signals_df, columns,
                    heuristic_weights, enhanced_weights, unreliable_participants,
                    judgeVars, callVars, signalVars >>

NormalizeNext == MinMaxNormalize

(* ------------------ identify_unreliable_participants ------------------ *)

\* Series.quantile(q): linear interpolation between the two values next to
\* position (n - 1) * q of the sorted non-missing values
quantile(series, q) ==
    LET v == SortedValues(series)
        pos == RMul(Rat(Len(v) - 1, 1), q)
        lo == pos.n \div pos.d
        frac == RSub(pos, Rat(lo, 1))
    IN  IF frac = Zero THEN v[lo + 1]
        ELSE RAdd(v[lo + 1], RMul(frac, RSub(v[lo + 2], v[lo + 1])))

\* mutant: the outliers of both sides
low_outlier_mask_both_sides(score, lower_bound, upper_bound) ==
    RLt(score, lower_bound) \/ RLt(upper_bound, score)

\* line 2295
low_outlier_mask(score, lower_bound, upper_bound) == RLt(score, lower_bound)

\* lines 2263-2301, method 'outliers': the participants (positions of the
\* table) found unreliable, in the order of the table
identify_unreliable_participants(df) ==
    LET scores == Column(df, "PRI_Scale_1_5")
    IN  IF AllNaN(scores) THEN << >>
        ELSE LET q1 == quantile(scores, Rat(1, 4))
                 q3 == quantile(scores, Rat(3, 4))
                 iqr == RSub(q3, q1)
                 lower_bound == RSub(q1, RMul(Rat(3, 2), iqr))
                 upper_bound == RAdd(q3, RMul(Rat(3, 2), iqr))
                 Low(i) == low_outlier_mask(scores[i], lower_bound, upper_bound)
             IN  RowsWhere([i \in 1..Len(df) |-> i], {i \in 1..Len(df) : Low(i)})

ScaleScores == {Rat(1, 1), Rat(2, 1), Rat(3, 1), Rat(5, 1), NaN}

\* the table of scores 1, 2, 2, 3, 3, 3, 4, 4, 5, 9
ExampleScores ==
    [i \in 1..10 |->
        [PRI_Scale_1_5 |-> Rat(<< 1, 2, 2, 3, 3, 3, 4, 4, 5, 9 >>[i], 1)]]

UnreliableInit ==
    /\ \/ \E n \in 1..MaxScores : pri_signals_df \in [1..n -> [PRI_Scale_1_5 : ScaleScores]]
       \/ pri_signals_df = ExampleScores
    /\ unreliable_participants = << >>
    /\ normalize_call = NoCall
    /\ fusion_pc = "scored"
    /\ enable_llm_judge = FALSE
    /\ signal_rows = << >>
    /\ llm_results = << >>
    /\ columns = {"PRI_Scale_1_5"}
    /\ heuristic_weights = NoWeights
    /\ enhanced_weights = NoWeights

\* lines 2263-2332
IdentifyUnreliable ==
    /\ fusion_pc = "scored"
    /\ unreliable_participants' = identify_unreliable_participants(pri_signals_df)
    /\ fusion_pc' = "identified"
    /\ UNCHANGED << enable_llm_judge, signal_rows, llm_results, pri_signals_df, columns,
                    heuristic_weights, enhanced_weights, normalize_call, judgeVars,
                    callVars, signalVars >>

UnreliableNext == IdentifyUnreliable

\* batch_process_llm_judge alone
InitJudge == JudgeInit /\ CallIdle /\ FusionIdle /\ SignalsIdle

SpecJudge == InitJudge /\ [][JudgeNext]_vars

\* the processing of the gathered results alone
InitAverage == AverageInit /\ JudgeIdle /\ FusionIdle /\ SignalsIdle

SpecAverage == InitAverage /\ [][AverageNext]_vars

\* batch_process_llm_judge on an event loop that runs every task that can
\* run, with a service under which every request resolves (the per-request
\* timeout of call_llm_judge)
InitJudgeLive == JudgeLiveInit /\ CallIdle /\ FusionIdle /\ SignalsIdle

SpecJudgeLive == InitJudgeLive /\ [][JudgeNext]_vars /\ WF_vars(JudgeNext)

\* call_llm_judge alone
InitCall == CallInit /\ JudgeIdle /\ FusionIdle /\ SignalsIdle

SpecCall == InitCall /\ [][CallNext]_vars

\* the tail of calculate_all_pri_signals, then normalize_and_calculate_pri
InitFusion == FusionInit /\ JudgeIdle /\ CallIdle /\ SignalsIdle

SpecFusion == InitFusion /\ [][FusionNext]_vars

\* min_max_normalize alone
InitNormalize == NormalizeInit /\ JudgeIdle /\ CallIdle /\ SignalsIdle

SpecNormalize == InitNormalize /\ [][NormalizeNext]_vars

\* identify_unreliable_participants alone
InitUnreliable == UnreliableInit /\ JudgeIdle /\ CallIdle /\ SignalsIdle

SpecUnreliable == InitUnreliable /\ [][UnreliableNext]_vars

\* main up to the table of raw signals
InitSignals == SignalsInit /\ JudgeIdle /\ CallIdle /\ FusionIdle

SpecSignals == InitSignals /\ [][SignalsNext]_vars

(* ============================== claims ================================ *)

(* ---- helpers of the claims: what a reply is worth, read off the reply -- *)

\* the reply is a timeout, a raised request or a non-success status
FailedReply(r) ==
    \/ r.kind \in {"timeout", "error"}
    \/ r.kind = "response" /\ r.status # 200

\* the reply is a well-formed object with a score in range
ScoredReply(r) ==
    /\ r.kind = "response"
    /\ r.status = 200
    /\ Len(r.content) = 4
    /\ r.content[1] = "LB"
    /\ r.content[2] \in {"KV_LO", "KV_OK"}
    /\ r.content[3] = "RSN"
    /\ r.content[4] = "RB"

ReplyScore(r) == IF r.content[2] = "KV_LO" THEN Rat(1, 5) ELSE Rat(4, 5)

\* participants whose judge fan-out ran to its end
Judged == {p \in Participants : task[p] = "done" /\ responses[p] = "some"}

ScoredModels(p) == {m \in ModelIdx : ScoredReply(calls[p][m].reply)}

RECURSIVE SumOver(_, _)
SumOver(p, ms) ==
    IF ms = {} THEN Zero
    ELSE LET m == CHOOSE m \in ms : TRUE
         IN  RAdd(ReplyScore(calls[p][m].reply), SumOver(p, ms \ {m}))

\* mean of the scores the participant's scored replies carry
MeanOfScored(p) == RDiv(SumOver(p, ScoredModels(p)), Rat(Cardinality(ScoredModels(p)), 1))

\* C1: the number of judge requests in flight never exceeds
\* MAX_CONCURRENT_REQUESTS, whatever the number of participants, batches and
\* judge models per participant.
C1_InFlightWithinCap == Cardinality(InFlight) <= MAX_CONCURRENT_REQUESTS

\* C2: when each participant issues exactly one judge call (one configured
\* model), the number of requests in flight never exceeds the cap.
C2_OneCallEachWithinCap ==
    Len(models) = 1 => Cardinality(InFlight) <= MAX_CONCURRENT_REQUESTS

\* C2 witness: cap 2, 5 participants, one model: 2 requests in flight while
\* a participant of the batch waits for a permit.
C2_Witness ==
    /\ Len(models) = 1
    /\ MAX_CONCURRENT_REQUESTS = 2
    /\ NumParticipants = 5
    /\ Cardinality(InFlight) = 2
    /\ \E p \in Participants : task[p] = "waiting"

\* C3: no participant of a later batch starts (is scheduled, acquires the
\* semaphore or issues a request) before every participant of each earlier
\* batch has its outcome, stored in results.
C3_BatchBarrier ==
    \A p, q \in Participants :
        (BatchOf(p) < BatchOf(q) /\ (task[q] # "none" \/ \E m \in ModelIdx : calls[q][m].state # "idle"))
            => (task[p] = "done" /\ p \in DOMAIN results)

\* C3 witness: a participant of the second batch has requests in flight.
C3_Witness ==
    \E q \in Participants :
        /\ BatchOf(q) = 1
        /\ \E m \in ModelIdx : calls[q][m].state = "inflight"
        /\ \E p \in Participants : BatchOf(p) = 0 /\ responses[p] = "some"

\* C4: a judge whose request timed out, raised or returned a non-success
\* status is recorded with no score and a diagnostic; the participant's other
\* judges are recorded with their scores and averaged; every stored result is
\* the one computed from that participant's own replies, and at the end no
\* participant's result is missing.
C4_FailedJudgeIsolated ==
    /\ \A p \in Judged :
          /\ \A m \in ModelIdx :
                FailedReply(calls[p][m].reply) =>
                    /\ models[m] \in DOMAIN ret[p].individual_scores
                    /\ IsNaN(ret[p].individual_scores[models[m]].confidence_score)
                    /\ ret[p].individual_scores[models[m]].reasoning
                          \in {"Request timeout", "Request error", "HTTP error"}
          /\ \A m \in ScoredModels(p) :
                /\ models[m] \in DOMAIN ret[p].individual_scores
                /\ ret[p].individual_scores[models[m]].confidence_score
                      = ReplyScore(calls[p][m].reply)
          /\ ScoredModels(p) # {} => ret[p].score = MeanOfScored(p)
    /\ \A p \in DOMAIN results : results[p] = ret[p] /\ task[p] = "done"
    /\ pc = "returned" => DOMAIN results = Participants

\* C4 witness: in one batch, a participant with one failed and one scored
\* judge next to a participant whose judges all scored, both stored.
C4_Witness ==
    \E p, q \in DOMAIN results :
        /\ p # q
        /\ BatchOf(p) = BatchOf(q)
        /\ p \in Judged /\ q \in Judged
        /\ \E m \in ModelIdx : FailedReply(calls[p][m].reply)
        /\ ScoredModels(p) # {}
        /\ ScoredModels(q) = ModelIdx

\* C5: the neutral 0.5 is returned when the participant has no evaluatable
\* response (and then no request was issued) and when none of the judges
\* yields a score; as soon as one judge yields a score the result is the
\* mean of the yielded scores, not the default.
C5_NeutralDefault ==
    \A p \in Participants :
        task[p] = "done" =>
            /\ responses[p] = "none" =>
                  /\ ret[p] = Score(Half, EmptyDict)
                  /\ \A m \in ModelIdx : calls[p][m].state = "idle"
            /\ (responses[p] = "some" /\ ScoredModels(p) = {}) => ret[p].score = Half
            /\ (responses[p] = "some" /\ ScoredModels(p) # {}) =>
                  ret[p].score = MeanOfScored(p)

\* C5 witness: one participant without responses, one whose judges all
\* failed and one with a single scoring judge whose score is not 0.5.
C5_Witness ==
    /\ \E p \in Participants : task[p] = "done" /\ responses[p] = "none"
    /\ \E p \in Judged : ScoredModels(p) = {}
    /\ \E p \in Judged : ScoredModels(p) # {} /\ ret[p].score # Half

(* ---- C6: the three parsing strategies, each taken on its own ---------- *)

\* strategy 1: the whole body parses as an object that validates
DirectScore(c) ==
    IF json_loads(c) = "dict" /\ LLMJudgeResponse(c).ok
    THEN LLMJudgeResponse(c).confidence_score ELSE None

\* strategy 2: an embedded object is found, parses and validates
EmbeddedScore(c) ==
    IF json_match(c) # << >> /\ json_loads(json_match(c)) = "dict"
       /\ LLMJudgeResponse(json_match(c)).ok
    THEN LLMJudgeResponse(json_match(c)).confidence_score ELSE None

\* strategy 3: a bare number follows the key and lies in [0,1]
BareScore(c) ==
    IF RLe(Zero, score_match(c)) /\ RLe(score_match(c), One)
    THEN score_match(c) ELSE None

FirstScore(c) ==
    IF ~IsNaN(DirectScore(c)) THEN DirectScore(c)
    ELSE IF ~IsNaN(EmbeddedScore(c)) THEN EmbeddedScore(c)
    ELSE BareScore(c)

\* C6: for a reply with success status the judge's score is the first one
\* the three strategies give, in order; it is "no score" only if all three
\* give none.
C6_FirstStrategyWins ==
    (call_pc = "done" /\ reply.kind = "response" /\ reply.status = 200)
        => judged.confidence_score = FirstScore(reply.content)

(* ------------------------------ fusion -------------------------------- *)

Fused == fusion_pc = "fused"

InUnit(x) == IsFinite(x) /\ RLe(Zero, x) /\ RLe(x, One)

\* the weight set whose weighted sum becomes PRI_Score
ActiveWeights == IF enhanced_weights # NoWeights THEN enhanced_weights
                 ELSE heuristic_weights

RECURSIVE WeightTotal(_, _)
WeightTotal(w, cs) ==
    IF cs = {} THEN Zero
    ELSE LET c == CHOOSE c \in cs : TRUE
         IN  RAdd(w[c], WeightTotal(w, cs \ {c}))

AscMissingForAll == \A i \in DOMAIN pri_signals_df : IsNaN(pri_signals_df[i].ASC_Score_Raw)

\* C7: for every participant, if every normalized signal of the active
\* weight set lies in [0,1], then PRI_Score lies in [0,1] after
\* normalize_and_calculate_pri, whichever of the four branches was taken.
C7_ScoreInUnitInterval ==
    Fused =>
        \A i \in DOMAIN pri_signals_df :
            (\A c \in DOMAIN ActiveWeights : InUnit(pri_signals_df[i][c]))
                => InUnit(pri_signals_df[i].PRI_Score)

\* a participant whose active normalized signals are all 1 and whose score
\* is 1, in the branch with the judge signal and without ASC
C7_Witness ==
    /\ Fused
    /\ AscMissingForAll
    /\ enhanced_weights # NoWeights
    /\ \E i \in DOMAIN pri_signals_df :
          /\ \A c \in DOMAIN ActiveWeights : pri_signals_df[i][c] = One
          /\ pri_signals_df[i].PRI_Score = One

\* C8: the weights used in the heuristic weighted sum add up to 1, and so
\* do the weights used in the enhanced weighted sum, with ASC available
\* and with ASC missing for everyone.
C8_WeightsSumToOne ==
    Fused =>
        /\ WeightTotal(heuristic_weights, DOMAIN heuristic_weights) = One
        /\ enhanced_weights # NoWeights
             => WeightTotal(enhanced_weights, DOMAIN enhanced_weights) = One

C8_Witness ==
    /\ Fused
    /\ Cardinality(DOMAIN heuristic_weights) = 3
    /\ Cardinality(DOMAIN enhanced_weights) = 4
    /\ WeightTotal(heuristic_weights, DOMAIN heuristic_weights) = One
    /\ WeightTotal(enhanced_weights, DOMAIN enhanced_weights) = One

\* C9: when ASC is missing for every participant, each of the 3 remaining
\* heuristic components gets ASC_WEIGHT/3 more (11/30, 11/30, 4/15 for the
\* configured 0.30, 0.30, 0.20, 0.20) and each of the 4 remaining enhanced
\* components gets ASC_WEIGHT_LLM/4 more (19/80, 19/80, 3/16, 27/80).
C9_EqualShares ==
    (Fused /\ AscMissingForAll) =>
        /\ DOMAIN heuristic_weights =
              {"Duration_Norm", "LowQualityTag_Norm", "UniversalDisagreement_Norm"}
        /\ heuristic_weights["Duration_Norm"] = Rat(11, 30)
        /\ heuristic_weights["LowQualityTag_Norm"] = Rat(11, 30)
        /\ heuristic_weights["UniversalDisagreement_Norm"] = Rat(4, 15)
        /\ enhanced_weights # NoWeights =>
              /\ DOMAIN enhanced_weights =
                    {"Duration_Norm", "LowQualityTag_Norm",
                     "UniversalDisagreement_Norm", "LLM_Judge_Norm"}
              /\ enhanced_weights["Duration_Norm"] = Rat(19, 80)
              /\ enhanced_weights["LowQualityTag_Norm"] = Rat(19, 80)
              /\ enhanced_weights["UniversalDisagreement_Norm"] = Rat(3, 16)
              /\ enhanced_weights["LLM_Judge_Norm"] = Rat(27, 80)

C9_Witness ==
    /\ Fused
    /\ AscMissingForAll
    /\ Len(pri_signals_df) = MaxPop
    /\ "LLM_Judge_Norm" \in DOMAIN enhanced_weights
    /\ heuristic_weights["Duration_Norm"] = RAdd(Rat(30, 100), Rat(1, 15))

\* some judge returned a valid score for some participant
AnyValidJudgeScore ==
    \E i \in DOMAIN pri_signals_df :
        \E m \in DOMAIN pri_signals_df[i].LLM_models :
            ~IsNaN(pri_signals_df[i].LLM_models[m])

RawOf(c) ==
    CASE c = "Duration_Norm" -> "Duration_seconds"
      [] c = "LowQualityTag_Norm" -> "LowQualityTag_Perc"
      [] c = "UniversalDisagreement_Norm" -> "UniversalDisagreement_Perc"
      [] c = "ASC_Norm" -> "ASC_Score_Raw"
      [] c = "LLM_Judge_Norm" -> "LLM_Judge_Score"

\* C11: a participant for whom a signal of the active weight set is missing
\* gets a missing PRI_Score (the signal's weight is redistributed only when
\* it left the active weight set); the score is never a weighted sum in
\* which the missing term counts as a number.
C11_MissingSignalMissingScore ==
    Fused =>
        \A i \in DOMAIN pri_signals_df :
            (\E c \in DOMAIN ActiveWeights : IsNaN(pri_signals_df[i][RawOf(c)]))
                => /\ IsNaN(pri_signals_df[i].PRI_Score)
                   /\ IsNaN(pri_signals_df[i].PRI_Scale_1_5)

\* ASC is missing for one participant only: that participant's score is
\* missing, the other's is a number
C11_Witness ==
    /\ Fused
    /\ "ASC_Norm" \in DOMAIN ActiveWeights
    /\ \E i, k \in DOMAIN pri_signals_df :
          /\ IsNaN(pri_signals_df[i].ASC_Score_Raw)
          /\ ~IsNaN(pri_signals_df[i].Duration_seconds)
          /\ IsNaN(pri_signals_df[i].PRI_Score)
          /\ IsFinite(pri_signals_df[k].PRI_Score)

(* ------------------------- the raw signals ---------------------------- *)

\* the rows of the results list that hold computed signals (the rows
\* written after an exception hold no signal)
ComputedRows == {k \in DOMAIN pri_results : ~IsNaN(pri_results[k].LowQualityTag_Perc)}

\* the non-missing timestamps of a participant, counted with repetitions,
\* and their values
TimestampCount(p) ==
    Cardinality({k \in DOMAIN data_tuple.binary_df.rows :
                    /\ data_tuple.binary_df.rows[k].pid = p
                    /\ ~IsNaN(data_tuple.binary_df.rows[k].Timestamp)})
    + Cardinality({k \in DOMAIN data_tuple.preference_df.rows :
                      /\ data_tuple.preference_df.rows[k].pid = p
                      /\ ~IsNaN(data_tuple.preference_df.rows[k].Timestamp)})

TimestampValues(p) ==
    {r.Timestamp : r \in {r \in Range(data_tuple.binary_df.rows)
                                \cup Range(data_tuple.preference_df.rows) :
                             r.pid = p /\ ~IsNaN(r.Timestamp)}}

\* C12: the duration of a participant with fewer than 2 non-missing
\* timestamps over both tables is 0 seconds, not missing; otherwise it is
\* the latest timestamp minus the earliest; it is never negative.
C12_Duration ==
    \A k \in ComputedRows :
        LET p == pri_results[k].pid
            d == pri_results[k].Duration_seconds
        IN  /\ TimestampCount(p) < 2 => d = Zero
            /\ TimestampCount(p) >= 2 =>
                  \E lo, hi \in TimestampValues(p) :
                      /\ \A t \in TimestampValues(p) : RLe(lo, t) /\ RLe(t, hi)
                      /\ d = RSub(hi, lo)
            /\ RLe(Zero, d)

\* timestamps 10 and 70 give 60 for one participant, a single timestamp
\* gives 0 for another
C12_Witness ==
    \E k, j \in ComputedRows :
        /\ TimestampValues(pri_results[k].pid) = {Rat(10, 1), Rat(70, 1)}
        /\ pri_results[k].Duration_seconds = Rat(60, 1)
        /\ TimestampCount(pri_results[j].pid) = 1
        /\ pri_results[j].Duration_seconds = Zero

\* the positions of a participant's votes in the binary table
VotesOf(p) == {k \in DOMAIN data_tuple.binary_df.rows : data_tuple.binary_df.rows[k].pid = p}

\* the valid (agree or disagree) votes of a participant on consensus items
ValidConsensusVotes(p) ==
    {k \in VotesOf(p) :
        /\ data_tuple.binary_df.rows[k].thought \in
              consensus_data.strong_agree_thoughts \cup consensus_data.strong_disagree_thoughts
        /\ data_tuple.binary_df.rows[k].VoteNumeric \in {Zero, One}}

\* those of them that go against the consensus
AgainstConsensusVotes(p) ==
    {k \in ValidConsensusVotes(p) :
        \/ /\ data_tuple.binary_df.rows[k].thought \in consensus_data.strong_agree_thoughts
           /\ data_tuple.binary_df.rows[k].VoteNumeric = Zero
        \/ /\ data_tuple.binary_df.rows[k].thought \in consensus_data.strong_disagree_thoughts
           /\ data_tuple.binary_df.rows[k].VoteNumeric = One}

\* C13: the ASC score is the number of the participant's valid votes that
\* disagree with a strong-agreement item or agree with a strong-disagreement
\* item, over the number of the participant's valid votes on consensus
\* items; it is missing, never 0, exactly when that number is 0.
C13_AscScore ==
    \A k \in ComputedRows :
        LET p == pri_results[k].pid
            asc == pri_results[k].ASC_Score_Raw
        IN  /\ IsNaN(asc) <=> ValidConsensusVotes(p) = {}
            /\ ValidConsensusVotes(p) # {} =>
                  asc = Rat(Cardinality(AgainstConsensusVotes(p)),
                            Cardinality(ValidConsensusVotes(p)))

\* 3 votes on strong-agreement items, 2 agree and 1 disagrees: 1/3
C13_Witness ==
    \E k \in ComputedRows :
        LET p == pri_results[k].pid
        IN  /\ Cardinality(ValidConsensusVotes(p)) = 3
            /\ \A v \in ValidConsensusVotes(p) :
                  data_tuple.binary_df.rows[v].thought \in consensus_data.strong_agree_thoughts
            /\ Cardinality(AgainstConsensusVotes(p)) = 1
            /\ pri_results[k].ASC_Score_Raw = Rat(1, 3)

CountsAsUniversallyDisagreed(entry) ==
    \/ RLt(entry.All_Agreement, UNIVERSAL_DISAGREEMENT_THRESHOLD_ALL)
    \/ IsNaN(entry.Max_Segment_Agreement)
    \/ RLe(entry.Max_Segment_Agreement, UNIVERSAL_DISAGREEMENT_THRESHOLD_SEGMENTS)

EvaluableItems(p) ==
    authored_thoughts_data(p, data_tuple.verbatim_map_df, data_tuple.aggregate_std_df,
                           data_tuple.major_segments)

\* C15: the universal-disagreement signal is the fraction of the
\* participant's evaluable authored items whose population-wide agreement
\* is below the global threshold or none of whose major-segment rates
\* exceeds the segment threshold; it is 0 when there is no such item.
C15_UniversalDisagreement ==
    \A k \in ComputedRows :
        LET items == EvaluableItems(pri_results[k].pid)
        IN  pri_results[k].UniversalDisagreement_Perc =
                IF items = << >> THEN Zero
                ELSE Rat(Cardinality({j \in DOMAIN items :
                                         CountsAsUniversallyDisagreed(items[j])}),
                         Len(items))

(* ---------------------- unreliable participants ----------------------- *)

ScoreOf(i) == pri_signals_df[i].PRI_Scale_1_5

\* the participants with a score
Scored == {i \in DOMAIN pri_signals_df : ~IsNaN(ScoreOf(i))}

\* the k-th smallest score (the scores are whole numbers)
KthScore(k) ==
    CHOOSE x \in {ScoreOf(i).n : i \in Scored} :
        /\ Cardinality({i \in Scored : ScoreOf(i).n < x}) < k
        /\ k <= Cardinality({i \in Scored : ScoreOf(i).n <= x})

\* four times the k-th quartile of the scores, by linear interpolation at
\* position (n - 1) * k / 4
Quartile4(k) ==
    LET n == Cardinality(Scored)
        pos == (n - 1) * k
        lo == pos \div 4
        r == pos % 4
    IN  IF r = 0 THEN 4 * KthScore(lo + 1)
        ELSE (4 - r) * KthScore(lo + 1) + r * KthScore(lo + 2)

\* eight times Q1 - 1.5 * IQR and eight times Q3 + 1.5 * IQR
LowerFence8 == 5 * Quartile4(1) - 3 * Quartile4(3)
UpperFence8 == 5 * Quartile4(3) - 3 * Quartile4(1)

\* C16: the 'outliers' method returns exactly the participants whose 1-5 score
\* is strictly below Q1 - 1.5 * IQR of the non-missing scores, each once and in
\* the order of the table; no participant without a score and none above
\* Q3 + 1.5 * IQR is returned; for the scores 1, 2, 2, 3, 3, 3, 4, 4, 5, 9 the
\* lower fence is -3/8, and nobody is returned although 9 is above 53/8
C16_LowOutliersOnly ==
    fusion_pc = "identified" =>
        /\ Scored # {} =>
               Range(unreliable_participants) =
                   {i \in Scored : 8 * ScoreOf(i).n < LowerFence8}
        /\ Scored = {} => unreliable_participants = << >>
        /\ \A j, k \in DOMAIN unreliable_participants :
               j < k => unreliable_participants[j] < unreliable_participants[k]
        /\ \A j \in DOMAIN unreliable_participants :
               /\ unreliable_participants[j] \in Scored
               /\ 8 * ScoreOf(unreliable_participants[j]).n <= UpperFence8
        /\ pri_signals_df = ExampleScores =>
               /\ LowerFence8 = -3
               /\ UpperFence8 = 53
               /\ unreliable_participants = << >>

\* a participant far below the others is returned, the others are not
C16_Witness ==
    /\ fusion_pc = "identified"
    /\ Len(unreliable_participants) = 1
    /\ Len(pri_signals_df) = 4
    /\ ScoreOf(unreliable_participants[1]) = Rat(1, 1)

(* ------------------------- missing inputs ----------------------------- *)

\* a required table cannot be read, or the binary table lacks one of its columns
RequiredInputMissing ==
    \/ ~source_files.binary.readable
    \/ ~source_files.preference.readable
    \/ ~source_files.verbatim_map.readable
    \/ ~source_files.aggregate.readable
    \/ ~(BinaryColumns \subseteq source_files.binary.columns)

\* C17: when a required table is unreadable or a required column of the binary
\* table is absent, the run stops before the loop over the participants: no
\* row of the results table is computed and the table is never returned
C17_AbortsOnMissingInput ==
    RequiredInputMissing =>
        /\ signals_pc \in {"start", "exited", "loaded", "raised"}
        /\ pri_results = << >>

(* --------------------- one row per participant ------------------------ *)

\* the items with a consensus
ConsensusThoughts ==
    consensus_data.strong_agree_thoughts \cup consensus_data.strong_disagree_thoughts

\* the ASC calculator raises for p: it looks up a column of the binary table
\* that is absent
CalculatorRaises(p) ==
    /\ ConsensusThoughts # {}
    /\ \/ "Thought ID" \notin source_files.binary.columns
       \/ /\ "Vote" \notin source_files.binary.columns
          /\ \E k \in DOMAIN source_files.binary.rows :
                 /\ source_files.binary.rows[k].pid = p
                 /\ source_files.binary.rows[k].thought \in ConsensusThoughts

\* the files with every column of the binary table in place
IntactFiles ==
    [source_files EXCEPT !.binary = [@ EXCEPT !.columns = BinaryColumns]]

SignalsMissing(row) ==
    /\ IsNaN(row.Duration_seconds)
    /\ IsNaN(row.LowQualityTag_Perc)
    /\ IsNaN(row.UniversalDisagreement_Perc)
    /\ IsNaN(row.ASC_Score_Raw)

UnscoredReply(r) == r \in JudgeReplies /\ ~ScoredReply(r)

\* C19: a participant with evaluatable responses has one request per configured
\* judge, in flight or answered; a request that was answered, whatever the
\* answer, is not in flight again; a participant without evaluatable responses
\* (or whose task raised before its requests) has no request at all
C19_OneRequestPerJudge ==
    \A p \in Participants :
        /\ responses[p] = "some" =>
               /\ \A m \in ModelIdx : calls[p][m].state \in {"inflight", "returned"}
               /\ task[p] = "done" => \A m \in ModelIdx : calls[p][m].state = "returned"
        /\ responses[p] # "some" =>
               \A m \in ModelIdx : calls[p][m] = Call("idle", NoReply, NoResult)
        /\ \A m \in ModelIdx :
               /\ calls[p][m].state = "inflight" => calls[p][m].reply = NoReply
               /\ calls[p][m].state = "returned" => calls[p][m].reply \in JudgeReplies

\* every judge of a participant failed and the task is over, next to a
\* participant without evaluatable responses
C19_Witness ==
    /\ pc = "returned"
    /\ Len(models) = 2
    /\ \E p \in Participants :
           /\ responses[p] = "some"
           /\ \A m \in ModelIdx :
                  calls[p][m].state = "returned" /\ UnscoredReply(calls[p][m].reply)
           /\ \E m \in ModelIdx : calls[p][m].reply.kind = "timeout"
           /\ \E m \in ModelIdx :
                  /\ calls[p][m].reply = Reply("response", 200, << "TXT" >>)
                  /\ calls[p][m].result.reasoning = "Parse error"
    /\ \E p \in Participants :
           /\ responses[p] = "none"
           /\ \A m \in ModelIdx : calls[p][m].state = "idle"

(* ------------------------ the averaged score -------------------------- *)

\* the judges of the gathered list that gave a score
ValidJudges ==
    {i \in DOMAIN gathered :
        gathered[i].state = "returned" /\ ~IsNaN(gathered[i].result.confidence_score)}

RECURSIVE SumOfJudges(_)
SumOfJudges(js) ==
    IF js = {} THEN Zero
    ELSE LET i == CHOOSE i \in js : TRUE
         IN  RAdd(gathered[i].result.confidence_score, SumOfJudges(js \ {i}))

\* the gathered list in another order
Reordered(perm) == [i \in DOMAIN gathered |-> gathered[perm[i]]]

\* C20: the averaged score is the sum of the scores of the judges that gave
\* one, divided by their number: a judge that returned no score or raised adds
\* to neither; and it is the same for the results listed in any other order
C20_AverageOfValidScores ==
    call_pc = "averaged" =>
        /\ ValidJudges # {} =>
               averaged.score =
                   RDiv(SumOfJudges(ValidJudges), Rat(Cardinality(ValidJudges), 1))
        /\ \A perm \in Permutations(DOMAIN gathered) :
               process_results(Reordered(perm)).score = averaged.score

\* one judge raised, one returned no score, one gave 1/5 and one 4/5: the
\* average is 1/2
C20_Witness ==
    /\ call_pc = "averaged"
    /\ Len(gathered) = 4
    /\ \E i \in DOMAIN gathered : gathered[i].state = "raised"
    /\ \E i \in DOMAIN gathered :
           gathered[i].state = "returned" /\ IsNaN(gathered[i].result.confidence_score)
    /\ {gathered[i].result.confidence_score : i \in ValidJudges} = {Rat(1, 5), Rat(4, 5)}
    /\ averaged.score = Rat(1, 2)

(* -------------------- results by participant -------------------------- *)

\* what p's own responses and the replies to p's own requests are worth
OwnResult(p) ==
    IF responses[p] # "some" THEN Score(Half, EmptyDict)
    ELSE process_results([m \in ModelIdx |->
             Call("returned", calls[p][m].reply,
                  call_llm_judge(models[m], calls[p][m].reply))])

\* C21: what is recorded under participant p is computed from p's own
\* responses and from the replies to p's own requests, and from nothing else:
\* whatever the order in which permits were taken and requests resolved, the
\* recorded mapping is this function of the replies
C21_ResultsByParticipant ==
    /\ \A p \in DOMAIN results : results[p] = OwnResult(p)
    /\ pc = "returned" => DOMAIN results = Participants

\* two participants of one batch whose judges answered differently, so that
\* their recorded results differ
C21_Witness ==
    /\ pc = "returned"
    /\ \E p, q \in Participants :
           /\ p < q
           /\ BatchOf(p) = BatchOf(q)
           /\ responses[p] = "some"
           /\ responses[q] = "some"
           /\ results[p].score = Rat(1, 5)
           /\ results[q].score = Rat(4, 5)

(* ----------------------------- termination ---------------------------- *)

\* C22: when every request resolves, batch_process_llm_judge returns, with an
\* entry for every participant ID; the entry of a participant whose
\* processing raised is (0.5, {})
C22_EventuallyReturns ==
    <>(/\ pc = "returned"
       /\ DOMAIN results = Participants
       /\ \A p \in Participants :
              responses[p] = "invalid" => results[p] = Score(Half, EmptyDict))

\* the run returned although the processing of one participant raised while
\* more participants than permits were in the batch
C22_Witness ==
    /\ pc = "returned"
    /\ DOMAIN results = Participants
    /\ NumParticipants > MAX_CONCURRENT_REQUESTS
    /\ BATCH_SIZE > MAX_CONCURRENT_REQUESTS
    /\ \E p \in Participants :
           responses[p] = "invalid" /\ results[p] = Score(Half, EmptyDict)
    /\ \E p \in Participants : responses[p] = "some"

(* --------------------------- normalization ---------------------------- *)

Normalized == fusion_pc = "normalized"

\* the non-missing raw values of the series
RawValues == {normalize_call.series[i] : i \in DOMAIN normalize_call.series} \ {NaN}

\* C23: when the series has a non-missing value, the minimum and the maximum
\* used for scaling are the minimum and the maximum of the non-missing raw
\* values, and a participant whose raw value is missing has a missing
\* normalized value
C23_RangeOfRawValues ==
    (Normalized /\ RawValues # {}) =>
        /\ normalize_call.min_val \in RawValues
        /\ normalize_call.max_val \in RawValues
        /\ \A x \in RawValues :
               RLe(normalize_call.min_val, x) /\ RLe(x, normalize_call.max_val)
        /\ \A i \in DOMAIN normalize_call.series :
               IsNaN(normalize_call.series[i]) => IsNaN(normalize_call.normalized[i])

\* a missing value next to two different values: the range is theirs, the
\* missing value stays missing and the others are 0 and 1
C23_Witness ==
    /\ Normalized
    /\ ~normalize_call.invert
    /\ normalize_call.series = << NaN, Rat(DURATION_REASONABLE_MAX \div 2, 1),
                                  Rat(DURATION_REASONABLE_MAX, 1) >>
    /\ normalize_call.min_val = Rat(DURATION_REASONABLE_MAX \div 2, 1)
    /\ normalize_call.max_val = Rat(DURATION_REASONABLE_MAX, 1)
    /\ normalize_call.normalized = << NaN, Zero, One >>

\* the cap on the durations
Cap == Rat(DURATION_REASONABLE_MAX, 1)

\* the smallest non-missing raw value
PopulationMinimum == CHOOSE x \in RawValues : \A y \in RawValues : RLe(x, y)

\* C24: when the durations are normalized with the cap, a raw value above the
\* cap becomes 1 and a raw value at or below the cap becomes
\* (value - population minimum) / (cap - population minimum), whether or not
\* a duration of the population exceeds the cap
C24_CappedDurationScale ==
    (Normalized /\ ~normalize_call.invert /\ normalize_call.reasonable_max = Cap) =>
        \A i \in DOMAIN normalize_call.series :
            LET x == normalize_call.series[i]
            IN  /\ RLt(Cap, x) => normalize_call.normalized[i] = One
                /\ RLe(x, Cap) =>
                       normalize_call.normalized[i] =
                           RDiv(RSub(x, PopulationMinimum), RSub(Cap, PopulationMinimum))

\* C25: every participant with a non-missing raw value has a normalized value
\* that is a number of [0,1], with and without inversion, with and without
\* the cap, also when the minimum of the population is the cap and its
\* maximum is above it
C25_NormalizedInUnitInterval ==
    Normalized =>
        \A i \in DOMAIN normalize_call.series :
            ~IsNaN(normalize_call.series[i]) => InUnit(normalize_call.normalized[i])

(* --------------------------- consensus sets --------------------------- *)

\* the consensus data of the run have been computed
Precomputed == signals_pc \in {"loop", "raised", "returned"}

\* the response items of the verbatim map
Items == {data_tuple.verbatim_map_df.rows[k].thought : k \in DOMAIN data_tuple.verbatim_map_df.rows}

\* the question of an item
ItemQuestion(t) ==
    LET rows == data_tuple.verbatim_map_df.rows
    IN  rows[CHOOSE k \in DOMAIN rows : rows[k].thought = t].question

\* the non-missing population agreement rates of the aggregate rows of a question
Rates(q) ==
    LET rows == data_tuple.aggregate_std_df.rows
    IN  {rows[k].All_Agreement : k \in {k \in DOMAIN rows : rows[k].question = q}} \ {NaN}

MaxRate(q) == CHOOSE x \in Rates(q) : \A y \in Rates(q) : RLe(y, x)

\* C26: whatever the tables and the thresholds, no response item is in the
\* strong-agreement set and in the strong-disagreement set
C26_ConsensusSetsDisjoint ==
    Precomputed =>
        consensus_data.strong_agree_thoughts \cap consensus_data.strong_disagree_thoughts = {}

\* the low threshold is above the high one and the rate of an item's question
\* lies between them: the item is in the strong-agreement set only
C26_Witness ==
    /\ Precomputed
    /\ RLt(run_config.ASC_HIGH_THRESHOLD, run_config.ASC_LOW_THRESHOLD)
    /\ \E t \in Items :
           /\ Rates(ItemQuestion(t)) = {Rat(50, 100)}
           /\ t \in consensus_data.strong_agree_thoughts
           /\ t \notin consensus_data.strong_disagree_thoughts

\* C27: an item is in the strong-agreement set iff the highest non-missing
\* population agreement rate of the rows of its question is at least the high
\* threshold; in the strong-disagreement set iff that rate is at most the low
\* threshold and below the high one; and in neither set otherwise, or when its
\* question has no rate
C27_ConsensusClassification ==
    Precomputed =>
        \A t \in Items :
            LET q == ItemQuestion(t)
            IN  /\ t \in consensus_data.strong_agree_thoughts <=>
                       (Rates(q) # {} /\ RLe(run_config.ASC_HIGH_THRESHOLD, MaxRate(q)))
                /\ t \in consensus_data.strong_disagree_thoughts <=>
                       /\ Rates(q) # {}
                       /\ RLe(MaxRate(q), run_config.ASC_LOW_THRESHOLD)
                       /\ RLt(MaxRate(q), run_config.ASC_HIGH_THRESHOLD)

\* question 1 has the rates 70% and then 30%, question 2 the rate 30% and
\* question 3 none: item 1 is in the strong-agreement set, item 2 in the
\* strong-disagreement set and item 3 in neither
C27_Witness ==
    /\ Precomputed
    /\ run_config = DefaultConfig
    /\ Len(data_tuple.aggregate_std_df.rows) = 3
    /\ data_tuple.aggregate_std_df.rows[1].question = 1
    /\ data_tuple.aggregate_std_df.rows[1].All_Agreement = Rat(70, 100)
    /\ data_tuple.aggregate_std_df.rows[2].question = 1
    /\ data_tuple.aggregate_std_df.rows[2].All_Agreement = Rat(30, 100)
    /\ data_tuple.aggregate_std_df.rows[3].question = 2
    /\ data_tuple.aggregate_std_df.rows[3].All_Agreement = Rat(30, 100)
    /\ consensus_data.strong_agree_thoughts = {1}
    /\ consensus_data.strong_disagree_thoughts = {2}

(* ------------------- consensus data within one run -------------------- *)

\* C28: in one run of the pipeline precompute_consensus_data is called once,
\* before the anti-social-consensus calculation of any participant, and no
\* such calculation changes the two sets
C28_ConsensusComputedOnce ==
    [][/\ signals_pc' \in {"loop", "raised", "returned"} => consensus_calls' = 1
       /\ participant_idx' = participant_idx + 1 =>
              /\ consensus_calls = 1
              /\ consensus_data' = consensus_data]_vars

\* a run that returned after the anti-social-consensus calculation of two
\* participants at least, one of which has a score, over non-empty sets
C28_Witness ==
    /\ signals_pc = "returned"
    /\ consensus_calls = 1
    /\ Len(pri_results) >= 2
    /\ consensus_data.strong_agree_thoughts \cup consensus_data.strong_disagree_thoughts # {}
    /\ \E k \in DOMAIN pri_results : ~IsNaN(pri_results[k].ASC_Score_Raw)

(* ------------------ a stage and the tables it is given ---------------- *)

\* C29: no stage changes a table made by an earlier stage: after
\* normalize_and_calculate_pri the table that calculate_all_pri_signals
\* returned has the rows and the columns it was returned with, and the tables
\* of load_data are as they were loaded
C29_EarlierTablesUnchanged ==
    /\ fusion_pc = "fused" =>
           /\ pri_signals_df = signals_table(signal_rows, llm_results, enable_llm_judge)
           /\ columns = signals_columns(enable_llm_judge)
    /\ signals_pc \in {"loop", "raised", "returned"} => data_tuple = load_data(source_files)

(* --------------------------- vote strings ----------------------------- *)

\* a vote string in lower case
LowerCase(vote) ==
    CASE vote \in {"Agree", "agree", "AGREE"} -> "agree"
      [] vote \in {"Disagree", "disagree", "DISAGREE"} -> "disagree"
      [] vote = "Unsure" -> "unsure"
      [] OTHER -> vote

\* C30: the loader gives a vote the number 1 when its string is 'agree' and 0
\* when it is 'disagree', whatever the case of the letters, and no number
\* otherwise (in a table that has the Vote column); the votes without a number count neither in the numerator nor
\* in the denominator of the ASC score
C30_VoteStrings ==
    signals_pc \in {"loaded", "loop", "raised", "returned"} =>
        /\ \A k \in DOMAIN source_files.binary.rows :
               "Vote" \in source_files.binary.columns =>
               data_tuple.binary_df.rows[k].VoteNumeric =
                   CASE LowerCase(source_files.binary.rows[k].Vote) = "agree" -> One
                     [] LowerCase(source_files.binary.rows[k].Vote) = "disagree" -> Zero
                     [] OTHER -> NaN
        /\ \A k \in ComputedRows :
               ValidConsensusVotes(pri_results[k].pid) # {} =>
                   pri_results[k].ASC_Score_Raw =
                       Rat(Cardinality(AgainstConsensusVotes(pri_results[k].pid)),
                           Cardinality(ValidConsensusVotes(pri_results[k].pid)))

====
